---- MODULE Spec2Model ----
(***************************************************************************)
(* Clip candidate selection and ranking engine of podcast-clipper:         *)
(* ClipFinderV3 (pattern scan, hard filters, grouping, scoring, tier       *)
(* threshold, diversity), ClipFinderV4 (single pass with fallback prompt   *)
(* and grounding) and ClipFinderV5 (candidates, scoring, polishing).       *)
(*                                                                         *)
(* Text is modelled as a sequence of tokens: a token is a word (an atomic  *)
(* run of non-blank characters) or SP, one blank character.  No word of    *)
(* the vocabulary used below is a proper part of another word, so the      *)
(* token-level prefix, suffix and containment tests coincide with          *)
(* Python's character-level startswith, endswith and "in".  Times are      *)
(* whole seconds.                                                          *)
(***************************************************************************)
EXTENDS Integers, Sequences, FiniteSets, TLC

VARIABLES
    pc,                   \* position of the running call
    arg,                  \* argument of the function under test
    ret,                  \* value the function under test returned
    transcript,           \* segments of the transcript handed to find_clips
    current_transcript,   \* self._current_transcript of the V4 / V5 singleton
    tier,                 \* V3: tier of the channel
    chunks_left,          \* V3: chunks _scan_for_patterns has still to scan
    raw_matches,          \* V3: all_matches of _scan_for_patterns
    filtered_matches,     \* V3: matches that passed the hard filters
    clip_candidates,      \* V3 and V5: the local candidates, then scored
    attempt,              \* V4: attempt of the retry loop
    prompt,               \* V4: the prompt of the next completion call
    llm_calls,            \* completion calls issued so far
    content,              \* the completion's answer find_clips has just received
    result,               \* list returned by find_clips
    engine                \* the ClipFinder whose find_clips runs

harness_vars == <<arg, ret>>

engine_vars ==
    <<transcript, current_transcript, tier, chunks_left, raw_matches, filtered_matches,
      clip_candidates, attempt, prompt, llm_calls, content, result, engine>>

vars == <<pc, harness_vars, engine_vars>>

(***************************************************************************)
(* Bounds of the model.                                                    *)
(***************************************************************************)
MaxFilterList == 2       \* longest list handed to _apply_hard_filters under test
MaxGroupList == 3        \* longest list handed to _create_candidates under test
MaxDiversityList == 3    \* longest list handed to _apply_diversity_constraints under test
MaxClipsArg == 3         \* largest max_clips handed to _apply_diversity_constraints under test
MaxItems == 2            \* most items in the list of one response, any item
MaxGoodClips == 4        \* most clips in a V4 response made of groundable clips only
MaxParseClips == 1       \* most clips of an object handed to _parse_json_response

(***************************************************************************)
(* Generic sequence helpers.                                               *)
(***************************************************************************)
\* concatenation of a sequence of sequences (halving keeps the nesting shallow)
RECURSIVE Concat(_)
Concat(ss) ==
    IF ss = <<>> THEN <<>>
    ELSE IF Len(ss) = 1 THEN ss[1]
    ELSE LET h == Len(ss) \div 2
         IN  Concat(SubSeq(ss, 1, h)) \o Concat(SubSeq(ss, h + 1, Len(ss)))

SeqsUpTo(S, n) == UNION {[1..k -> S] : k \in 0..n}

Rep(tok, n) == [i \in 1..n |-> tok]

Min(a, b) == IF a <= b THEN a ELSE b

(***************************************************************************)
(* Python str operations on token sequences.                               *)
(***************************************************************************)
SP == " "

LowerTok(t) ==
    CASE t = "But" -> "but"
      [] t = "So" -> "so"
      [] t = "Right" -> "right"
      [] t = "Yield" -> "yield"
      [] t = "Bankless" -> "bankless"
      [] t = "Bell" -> "bell"
      [] t = "Curve" -> "curve"
      [] OTHER -> t

PyLower(s) == [i \in DOMAIN s |-> LowerTok(s[i])]

\* str.strip(): the text between its first and last non-blank token
PyStrip(s) ==
    IF \A i \in DOMAIN s : s[i] = SP THEN <<>>
    ELSE SubSeq(s,
                CHOOSE i \in DOMAIN s : s[i] # SP /\ \A j \in 1..(i - 1) : s[j] = SP,
                CHOOSE i \in DOMAIN s : s[i] # SP /\ \A j \in (i + 1)..Len(s) : s[j] = SP)

StartsWith(s, p) == Len(p) <= Len(s) /\ SubSeq(s, 1, Len(p)) = p

EndsWith(s, p) == Len(p) <= Len(s) /\ SubSeq(s, Len(s) - Len(p) + 1, Len(s)) = p

\* Python's "needle in hay"
Contains(hay, needle) ==
    \E i \in 0..(Len(hay) - Len(needle)) : SubSeq(hay, i + 1, i + Len(needle)) = needle

\* sep.join(parts)
RECURSIVE PyJoin(_, _)
PyJoin(sep, parts) ==
    IF parts = <<>> THEN <<>>
    ELSE IF Len(parts) = 1 THEN parts[1]
    ELSE LET h == Len(parts) \div 2
         IN  PyJoin(sep, SubSeq(parts, 1, h)) \o sep
                 \o PyJoin(sep, SubSeq(parts, h + 1, Len(parts)))

\* ' '.join(s.split()[:n]): the first n blank-separated words of s, one blank
\* between two words
FirstWordsJoined(s, n) ==
    LET ends == {i \in DOMAIN s : s[i] # SP /\ (i = Len(s) \/ s[i + 1] = SP)}
        k == Min(n, Cardinality(ends))
        cut == IF k = 0 THEN 0
               ELSE CHOOSE i \in ends : Cardinality({j \in ends : j <= i}) = k
        marked == [i \in 1..cut |-> <<s[i], i > 1 /\ s[i - 1] = SP>>]
        Kept(m) == m[1] # SP \/ ~m[2]
        kept == SelectSeq(marked, Kept)
    IN  PyStrip([i \in DOMAIN kept |-> kept[i][1]])

\* s[:n]
Take(s, n) == SubSeq(s, 1, Min(n, Len(s)))

ELLIPSIS == <<"...">>

(***************************************************************************)
(* JSON values as the scan reads them: a tagged value is a string, a       *)
(* number or null.                                                         *)
(***************************************************************************)
StrV(s) == [t |-> "str", v |-> s]
NullV == [t |-> "null", v |-> <<>>]
IsStr(x) == x.t = "str"

\* the dataclasses of clip_finder_v3 (pattern_name, speaker_name and
\* trigger_found are carried along unread and left out; primary_pattern holds
\* the pattern id, which names the pattern as pattern_name does)
PatternMatch(pid, s, e, text, quot, why, sc) ==
    [pattern_id |-> pid, start_time |-> s, end_time |-> e,
     transcript_text |-> text, quotable_line |-> quot, why_good |-> why,
     score |-> sc]

V3ClipCandidate(s, e, text, members, score, pattern, quot, why) ==
    [start_time |-> s, end_time |-> e, transcript_text |-> text,
     patterns_matched |-> members, total_score |-> score,
     primary_pattern |-> pattern, quotable_line |-> quot, why_selected |-> why]

(***************************************************************************)
(* Hard rejection filters (configuration of ClipFinderV3).                 *)
(***************************************************************************)
BAD_OPENERS == <<
    <<"but", SP>>, <<"so", SP>>, <<"and", SP>>, <<"or", SP>>,
    <<"what", SP, "we", SP>>, <<"what", SP, "i", SP>>,
    <<"i", SP, "mean", SP>>, <<"you", SP, "know", SP>>,
    <<"like", SP, "i", SP, "said">>, <<"as", SP, "i", SP, "mentioned">>,
    <<"going", SP, "back", SP, "to">>, <<"to", SP, "your", SP, "point">>,
    <<"um", SP>>, <<"uh", SP>>, <<"yeah", SP>>,
    <<"right", SP, "so">>, <<"okay", SP, "so">> >>

JARGON_TERMS == <<
    <<"term", SP, "structure">>, <<"yield", SP, "curve">>,
    <<"liquidity", SP, "provision">>, <<"collateralization", SP, "ratio">>,
    <<"utilization", SP, "rate">>, <<"impermanent", SP, "loss">>,
    <<"slippage", SP, "tolerance">>, <<"rebalancing", SP, "mechanism">>,
    <<"arbitrage", SP, "opportunity">>, <<"cross-margining">>,
    <<"delta", SP, "neutral">> >>

\* self.bad_openers / self.jargon_terms: the lists lowercased in __init__
bad_openers == [i \in DOMAIN BAD_OPENERS |-> PyLower(BAD_OPENERS[i])]
jargon_terms == [i \in DOMAIN JARGON_TERMS |-> PyLower(JARGON_TERMS[i])]

JargonWords == 50
JargonLimit == 3
MinQuotableLen == 20

\* text_lower = match.transcript_text.lower().strip()
TextLower(match) == PyStrip(PyLower(match.transcript_text.v))

\* any(text_lower.startswith(bad) for bad in self.bad_openers)
HasBadOpener(match) ==
    LET text_lower == TextLower(match)
    IN  \E b \in DOMAIN bad_openers : StartsWith(text_lower, bad_openers[b])

\* first_50_words = ' '.join(text_lower.split()[:50]);
\* sum(1 for j in self.jargon_terms if j in first_50_words)
JargonCount(match) ==
    LET first_50_words == FirstWordsJoined(TextLower(match), JargonWords)
    IN  Cardinality({j \in DOMAIN jargon_terms :
                        Contains(first_50_words, jargon_terms[j])})

\* match.transcript_text.strip().endswith("...")
TrailsOff(match) == EndsWith(PyStrip(match.transcript_text.v), ELLIPSIS)

\* a mutant: a quotable line of exactly the minimum length is rejected too
NoQuotableLineLe(match) == Len(match.quotable_line.v) <= MinQuotableLen

\* len(match.quotable_line) < 20
NoQuotableLine(match) == Len(match.quotable_line.v) < MinQuotableLen

\* the rejection reasons _apply_hard_filters collects for one match
RejectionReasons(match) ==
    (IF HasBadOpener(match) THEN {"bad_opener"} ELSE {})
    \cup (IF JargonCount(match) >= JargonLimit THEN {"jargon"} ELSE {})
    \cup (IF TrailsOff(match) THEN {"trails_off"} ELSE {})
    \cup (IF NoQuotableLine(match) THEN {"no_quotable"} ELSE {})

\* a mutant: survivors are inserted at the front of the result list
RECURSIVE ApplyHardFiltersPrepend(_)
ApplyHardFiltersPrepend(matches) ==
    IF matches = <<>> THEN <<>>
    ELSE IF RejectionReasons(Head(matches)) = {}
         THEN ApplyHardFiltersPrepend(Tail(matches)) \o <<Head(matches)>>
         ELSE ApplyHardFiltersPrepend(Tail(matches))

\* ClipFinderV3._apply_hard_filters, for matches whose fields are strings
RECURSIVE ApplyHardFilters(_)
ApplyHardFilters(matches) ==
    IF matches = <<>> THEN <<>>
    ELSE IF RejectionReasons(Head(matches)) = {}
         THEN <<Head(matches)>> \o ApplyHardFilters(Tail(matches))
         ELSE ApplyHardFilters(Tail(matches))

\* str.lower() of a non-string transcript, len() of a null or numeric quotable
\* line: _apply_hard_filters raises AttributeError / TypeError
HardFiltersRaise(matches) ==
    \E i \in DOMAIN matches :
        ~IsStr(matches[i].transcript_text) \/ ~IsStr(matches[i].quotable_line)

(***************************************************************************)
(* The pattern catalog, in the order of the CLIP_PATTERNS dict.  Weights   *)
(* and scores are in millionths (1.3 is 1300000), so that the bonus        *)
(* factors 1.2, 1.1 and 1.05 are exact.                                    *)
(***************************************************************************)
CLIP_PATTERNS == <<
    [id |-> "contrast", weight |-> 1300000],
    [id |-> "bold_prediction", weight |-> 1400000],
    [id |-> "contradiction_callout", weight |-> 1200000],
    [id |-> "consequence_chain", weight |-> 1200000],
    [id |-> "hot_take", weight |-> 1300000],
    [id |-> "meme_analogy", weight |-> 1250000],
    [id |-> "sarcastic_mock", weight |-> 1200000],
    [id |-> "specific_numbers", weight |-> 1100000],
    [id |-> "walkthrough", weight |-> 1150000],
    [id |-> "redefine", weight |-> 1300000] >>

PatternWeight(pid) ==
    CLIP_PATTERNS[CHOOSE i \in DOMAIN CLIP_PATTERNS : CLIP_PATTERNS[i].id = pid].weight

NoPattern == "None"

\* the empty pattern string, m.get("pattern", "")
EmptyPattern == [full |-> {}, partial |-> {}]

\* ClipFinderV3._get_pattern_id.  A pattern string of the model is
\* represented by what this function reads of it: full, the ids p with
\* "pid in name_lower or p['name'].lower() in name_lower", and partial, the
\* ids one of whose words occurs in name_lower.
GetPatternId(pattern) ==
    IF \E i \in DOMAIN CLIP_PATTERNS : CLIP_PATTERNS[i].id \in pattern.full
    THEN CLIP_PATTERNS[CHOOSE i \in DOMAIN CLIP_PATTERNS :
                          /\ CLIP_PATTERNS[i].id \in pattern.full
                          /\ \A j \in 1..(i - 1) : CLIP_PATTERNS[j].id \notin pattern.full].id
    ELSE IF \E i \in DOMAIN CLIP_PATTERNS : CLIP_PATTERNS[i].id \in pattern.partial
    THEN CLIP_PATTERNS[CHOOSE i \in DOMAIN CLIP_PATTERNS :
                          /\ CLIP_PATTERNS[i].id \in pattern.partial
                          /\ \A j \in 1..(i - 1) : CLIP_PATTERNS[j].id \notin pattern.partial].id
    ELSE NoPattern

(***************************************************************************)
(* Channel tiers.                                                          *)
(***************************************************************************)
\* self.channel_tiers: lowercased channel names and handles with their tier,
\* in insertion order (a sample of config/channels.json)
channel_tiers == <<
    [key |-> <<"bankless">>, tier |-> "A"],
    [key |-> <<"bell", SP, "curve">>, tier |-> "C"] >>

\* ClipFinderV3.get_channel_tier on an engine whose self.channel_tiers is
\* tiers
GetChannelTierIn(tiers, channel_name) ==
    LET name_lower == PyLower(channel_name)
        Partial(i) == \/ Contains(name_lower, tiers[i].key)
                      \/ Contains(tiers[i].key, name_lower)
    IN  IF \E i \in DOMAIN tiers : tiers[i].key = name_lower
        THEN tiers[CHOOSE i \in DOMAIN tiers : tiers[i].key = name_lower].tier
        ELSE IF \E i \in DOMAIN tiers : Partial(i)
        THEN tiers[CHOOSE i \in DOMAIN tiers :
                      Partial(i) /\ \A j \in 1..(i - 1) : ~Partial(j)].tier
        ELSE "B"

\* ClipFinderV3.get_channel_tier
GetChannelTier(channel_name) == GetChannelTierIn(channel_tiers, channel_name)

\* a mutant: Tier C asks for a score of 1.5
TierSettingsLowBar(t) ==
    CASE t = "A" -> [max_clips_per_video |-> 3, min_score_threshold |-> 0]
      [] t = "C" -> [max_clips_per_video |-> 1, min_score_threshold |-> 1500000]
      [] OTHER -> [max_clips_per_video |-> 2, min_score_threshold |-> 0]

\* ClipFinderV3.get_tier_settings with an empty tier_config
TierSettings(t) ==
    CASE t = "A" -> [max_clips_per_video |-> 3, min_score_threshold |-> 0]
      [] t = "C" -> [max_clips_per_video |-> 1, min_score_threshold |-> 2000000]
      [] OTHER -> [max_clips_per_video |-> 2, min_score_threshold |-> 0]

(***************************************************************************)
(* Transcript windows.                                                     *)
(***************************************************************************)
ChunkSeconds == 120
ChunkOverlap == 30

Segment(s, e, text) == [start |-> s, end |-> e, text |-> text]

Chunk(start, segs) ==
    [start_time |-> start, end_time |-> segs[Len(segs)].end, segments |-> segs]

SegStartsFrom(t, seg) == seg.start >= t

\* the loop of _create_scan_chunks
RECURSIVE ChunkLoop(_, _, _, _)
ChunkLoop(segments, chunk_start_time, chunk_segments, chunks) ==
    IF segments = <<>>
    THEN IF chunk_segments # <<>>
         THEN Append(chunks, Chunk(chunk_start_time, chunk_segments))
         ELSE chunks
    ELSE LET segment == Head(segments)
         IN  IF segment.start - chunk_start_time > ChunkSeconds /\ chunk_segments # <<>>
             THEN LET overlap_start == segment.start - ChunkOverlap
                      IsKept(x) == SegStartsFrom(overlap_start, x)
                      kept == SelectSeq(chunk_segments, IsKept)
                  IN  ChunkLoop(Tail(segments),
                                IF kept # <<>> THEN kept[1].start ELSE segment.start,
                                Append(kept, segment),
                                Append(chunks, Chunk(chunk_start_time, chunk_segments)))
             ELSE ChunkLoop(Tail(segments), chunk_start_time,
                            Append(chunk_segments, segment), chunks)

\* _create_scan_chunks without the append after the loop
CreateScanChunksWithoutLast(segments) ==
    IF segments = <<>> THEN <<>>
    ELSE LET all == ChunkLoop(segments, segments[1].start, <<>>, <<>>)
         IN  SubSeq(all, 1, Len(all) - 1)

\* ClipFinderV3._create_scan_chunks(transcript, chunk_seconds=120)
CreateScanChunks(segments) ==
    IF segments = <<>> THEN <<>>
    ELSE ChunkLoop(segments, segments[1].start, <<>>, <<>>)

(***************************************************************************)
(* The scan of one chunk.  A response of the completion call is RAISES     *)
(* (the call raised), NOT_JSON, NOT_OBJECT (valid JSON that is no object)  *)
(* or an object whose "matches" is a list of items.  An item holds tagged  *)
(* JSON values; a missing key has the tag "missing".                       *)
(***************************************************************************)
NumV(n) == [t |-> "num", v |-> n]
MissingV == [t |-> "missing", v |-> <<>>]
IsNum(x) == x.t = "num"

\* dict.get(key, default)
Get(x, default) == IF x.t = "missing" THEN default ELSE x

MinDuration == 15
MaxDuration == 90

\* a mutant: a clip of exactly the minimum or maximum duration is rejected
DurationOutOfBandStrict(duration) == duration <= MinDuration \/ duration >= MaxDuration

\* duration < self.min_duration or duration > self.max_duration
DurationOutOfBand(duration) == duration < MinDuration \/ duration > MaxDuration

\* what the loop body of _scan_chunk_for_patterns does with one item:
\* "raise" (an exception), "skip" (continue) or "append"
ScanItem(m) ==
    IF m.t # "obj" THEN "raise"
    ELSE IF ~IsStr(Get(m.pattern, StrV(EmptyPattern))) THEN "raise"
    ELSE IF GetPatternId(Get(m.pattern, StrV(EmptyPattern)).v) = NoPattern
         THEN "skip"
    ELSE IF ~IsNum(Get(m.end_time, NumV(0))) \/ ~IsNum(Get(m.start_time, NumV(0)))
         THEN "raise"
    ELSE IF DurationOutOfBand(Get(m.end_time, NumV(0)).v - Get(m.start_time, NumV(0)).v)
         THEN "skip"
    ELSE "append"

ScanMatch(m) ==
    LET pattern_id == GetPatternId(Get(m.pattern, StrV(EmptyPattern)).v)
    IN  PatternMatch(pattern_id, Get(m.start_time, NumV(0)).v, Get(m.end_time, NumV(0)).v,
                     Get(m.transcript, StrV(<<>>)), Get(m.quotable_line, StrV(<<>>)),
                     Get(m.why_good, StrV(<<>>)), PatternWeight(pattern_id))

IsAppended(m) == ScanItem(m) = "append"

\* ClipFinderV3._scan_chunk_for_patterns: the matches of one response, or
\* [] when anything in the try block raised
ScanChunkForPatterns(response) ==
    IF response.kind # "object" THEN <<>>
    ELSE IF \E i \in DOMAIN response.items : ScanItem(response.items[i]) = "raise"
         THEN <<>>
    ELSE LET kept == SelectSeq(response.items, IsAppended)
         IN  [i \in DOMAIN kept |-> ScanMatch(kept[i])]

(***************************************************************************)
(* Grouping of matches into candidates.                                    *)
(***************************************************************************)
GroupGap == 30

\* sorted(matches, key=lambda m: m.start_time): a stable sort
RECURSIVE InsertByStart(_, _)
InsertByStart(sorted, m) ==
    IF sorted = <<>> THEN <<m>>
    ELSE IF sorted[Len(sorted)].start_time <= m.start_time THEN Append(sorted, m)
    ELSE Append(InsertByStart(SubSeq(sorted, 1, Len(sorted) - 1), m), sorted[Len(sorted)])

RECURSIVE SortByStart(_)
SortByStart(matches) ==
    IF matches = <<>> THEN <<>>
    ELSE InsertByStart(SortByStart(SubSeq(matches, 1, Len(matches) - 1)),
                       matches[Len(matches)])

MinOf(S) == CHOOSE x \in S : \A y \in S : x <= y
MaxOf(S) == CHOOSE x \in S : \A y \in S : y <= x

RECURSIVE SumScores(_)
SumScores(matches) ==
    IF matches = <<>> THEN 0 ELSE Head(matches).score + SumScores(Tail(matches))

\* the first match of the group, whatever its score
BestMatchFirst(matches) == matches[1]

\* max(matches, key=lambda m: m.score): the first match of maximal score
BestMatch(matches) ==
    matches[CHOOSE i \in DOMAIN matches :
                /\ \A j \in DOMAIN matches : matches[j].score <= matches[i].score
                /\ \A j \in 1..(i - 1) : matches[j].score < matches[i].score]

\* a mutant: the candidate runs from the latest end back to the earliest start
GroupToCandidateBackwards(matches) ==
    LET best_match == BestMatch(matches)
    IN  [start_time |-> MaxOf({matches[i].end_time : i \in DOMAIN matches}),
         end_time |-> MinOf({matches[i].start_time : i \in DOMAIN matches}),
         transcript_text |-> best_match.transcript_text,
         patterns_matched |-> matches,
         total_score |-> SumScores(matches),
         primary_pattern |-> best_match.pattern_id,
         quotable_line |-> best_match.quotable_line,
         why_selected |-> best_match.why_good]

\* ClipFinderV3._group_to_candidate
GroupToCandidate(matches) ==
    LET best_match == BestMatch(matches)
    IN  [start_time |-> MinOf({matches[i].start_time : i \in DOMAIN matches}),
         end_time |-> MaxOf({matches[i].end_time : i \in DOMAIN matches}),
         transcript_text |-> best_match.transcript_text,
         patterns_matched |-> matches,
         total_score |-> SumScores(matches),
         primary_pattern |-> best_match.pattern_id,
         quotable_line |-> best_match.quotable_line,
         why_selected |-> best_match.why_good]

\* a mutant: the gap is measured from the start of the preceding match
JoinsGroupFromStart(current_group, match) ==
    match.start_time - current_group[Len(current_group)].start_time < GroupGap

\* match.start_time - current_group[-1].end_time < 30
JoinsGroup(current_group, match) ==
    match.start_time - current_group[Len(current_group)].end_time < GroupGap

\* the loop of _create_candidates over sorted_matches[1:]
RECURSIVE GroupLoop(_, _, _)
GroupLoop(rest, current_group, candidates) ==
    IF rest = <<>> THEN Append(candidates, GroupToCandidate(current_group))
    ELSE IF JoinsGroup(current_group, Head(rest))
         THEN GroupLoop(Tail(rest), Append(current_group, Head(rest)), candidates)
         ELSE GroupLoop(Tail(rest), <<Head(rest)>>,
                        Append(candidates, GroupToCandidate(current_group)))

\* ClipFinderV3._create_candidates
CreateCandidates(matches) ==
    IF matches = <<>> THEN <<>>
    ELSE LET sorted_matches == SortByStart(matches)
         IN  GroupLoop(Tail(sorted_matches), <<Head(sorted_matches)>>, <<>>)

(***************************************************************************)
(* Scoring.                                                                *)
(***************************************************************************)
DigitTokens == {"7"}

\* any(c.isdigit() for c in text)
HasDigit(text) == \E i \in DOMAIN text : text[i] \in DigitTokens

ShortClipSeconds == 45
ShorterClipSeconds == 30

\* the three bonuses of _score_candidates, applied to one candidate
ScoreCandidate(candidate) ==
    LET duration == candidate.end_time - candidate.start_time
        s0 == candidate.total_score
        s1 == IF Len(candidate.patterns_matched) > 1 THEN (s0 * 12) \div 10 ELSE s0
        s2 == IF duration <= ShortClipSeconds THEN (s1 * 11) \div 10
              ELSE IF duration <= ShorterClipSeconds THEN (s1 * 12) \div 10
              ELSE s1
        s3 == IF HasDigit(candidate.transcript_text.v) THEN (s2 * 105) \div 100 ELSE s2
    IN  [candidate EXCEPT !.total_score = s3]

\* candidates.sort(key=lambda c: c.total_score, reverse=True): a stable sort
RECURSIVE InsertByScore(_, _)
InsertByScore(sorted, c) ==
    IF sorted = <<>> THEN <<c>>
    ELSE IF sorted[Len(sorted)].total_score >= c.total_score THEN Append(sorted, c)
    ELSE Append(InsertByScore(SubSeq(sorted, 1, Len(sorted) - 1), c), sorted[Len(sorted)])

\* the candidates left in the order they were built in
SortByScoreUnsorted(cands) == cands

RECURSIVE SortByScore(_)
SortByScore(cands) ==
    IF cands = <<>> THEN <<>>
    ELSE InsertByScore(SortByScore(SubSeq(cands, 1, Len(cands) - 1)), cands[Len(cands)])

\* ClipFinderV3._score_candidates
ScoreCandidates(cands) == SortByScore([i \in DOMAIN cands |-> ScoreCandidate(cands[i])])

\* scored = [c for c in scored if c.total_score >= min_score], when min_score > 0
\* the comparison with > for >=
AtLeastStrict(min_score, c) == c.total_score > min_score

AtLeast(min_score, c) == c.total_score >= min_score

ApplyThreshold(scored, min_score) ==
    IF min_score > 0
    THEN LET Keeps(c) == AtLeast(min_score, c) IN SelectSeq(scored, Keeps)
    ELSE scored

(***************************************************************************)
(* Diversity selection.                                                    *)
(***************************************************************************)
MinGapSeconds == 300

Abs(x) == IF x < 0 THEN -x ELSE x

\* any(abs(candidate.start_time - s.start_time) < min_gap_seconds for s in selected)
TooClose(candidate, selected) ==
    \E i \in DOMAIN selected :
        Abs(candidate.start_time - selected[i].start_time) < MinGapSeconds

\* any(candidate.primary_pattern == s.primary_pattern for s in selected)
SamePattern(candidate, selected) ==
    \E i \in DOMAIN selected : candidate.primary_pattern = selected[i].primary_pattern

\* a mutant: the fallback branch accepts a candidate whenever a slot is free
AcceptsIgnoringGap(candidate, selected, max_clips) ==
    \/ ~TooClose(candidate, selected) /\ ~SamePattern(candidate, selected)
    \/ Len(selected) < max_clips

\* the if / elif of the selection loop
Accepts(candidate, selected, max_clips) ==
    \/ ~TooClose(candidate, selected) /\ ~SamePattern(candidate, selected)
    \/ ~TooClose(candidate, selected) /\ Len(selected) < max_clips

RECURSIVE DiversityLoop(_, _, _)
DiversityLoop(candidates, selected, max_clips) ==
    IF candidates = <<>> \/ Len(selected) >= max_clips THEN selected
    ELSE DiversityLoop(Tail(candidates),
                       IF Accepts(Head(candidates), selected, max_clips)
                           THEN Append(selected, Head(candidates)) ELSE selected,
                       max_clips)

\* ClipFinderV3._apply_diversity_constraints with the default min_gap_seconds
ApplyDiversityConstraints(candidates, max_clips) ==
    DiversityLoop(candidates, <<>>, max_clips)

(***************************************************************************)
(* Sample texts: each exercises one rule of the hard filter or its edge.   *)
(***************************************************************************)
Words(n) == Concat(Rep(<<"w", SP>>, n))

T_clean == <<"bitcoin", SP, "wins">>
T_opener == <<SP, "But", SP, "then">>
T_but_alone == <<"but">>
T_right_so == <<"Right", SP, "so">>
T_jargon3 == <<"Yield", SP, "curve", SP, "delta", SP, "neutral", SP, "cross-margining">>
T_jargon2 == <<"yield", SP, "curve", SP, "delta", SP, "neutral">>
\* three jargon terms, the third one cut by the 50-word window
T_jargon_cut ==
    Words(46) \o <<"cross-margining", SP, "yield", SP, "curve", SP, "delta", SP, "neutral">>
\* three jargon terms, all within the first 50 words
T_jargon_in ==
    Words(45) \o <<"cross-margining", SP, "yield", SP, "curve", SP, "delta", SP, "neutral">>
T_trails == <<"it", SP, "trails", SP, "off", "...">>
T_trails_sp == <<"it", SP, "trails", "...", SP>>
T_lead_dots == <<"...", SP, "and", SP, "7", SP, "more">>

FilterTexts ==
    {T_clean, T_opener, T_but_alone, T_right_so, T_jargon3, T_jargon2,
     T_jargon_cut, T_jargon_in, T_trails, T_trails_sp, T_lead_dots, <<>>}

FilterSamples ==
    {PatternMatch("hot_take", 100, 130, StrV(t), StrV(Rep("q", 20)), StrV(<<>>), 1300000) : t \in FilterTexts}
    \cup {PatternMatch("hot_take", 100, 130, StrV(T_clean), StrV(Rep("q", n)), StrV(<<>>), 1300000) :
             n \in {0, 10, 19, 21}}
    \cup {PatternMatch("hot_take", 100, 130, StrV(T_opener), StrV(Rep("q", 10)), StrV(<<>>), 1300000)}

NoTranscript == [set |-> FALSE, segments |-> <<>>]

NoResponse == [kind |-> "none", items |-> <<>>]

\* no find_clips call is running
EngineIdle ==
    /\ transcript = <<>>
    /\ current_transcript = NoTranscript
    /\ tier = "B"
    /\ chunks_left = <<>>
    /\ raw_matches = <<>>
    /\ filtered_matches = <<>>
    /\ clip_candidates = <<>>
    /\ attempt = 0
    /\ prompt = "primary"
    /\ llm_calls = 0
    /\ content = NoResponse
    /\ result = <<>>
    /\ engine = "none"

(***************************************************************************)
(* _apply_hard_filters as a function under test: applied once, then to its *)
(* own result.                                                             *)
(***************************************************************************)
InitFilter ==
    /\ pc = "filter_call"
    /\ arg \in SeqsUpTo(FilterSamples, MaxFilterList)
    /\ ret = <<>>
    /\ EngineIdle

FilterOnce ==
    /\ pc = "filter_call"
    /\ ret' = <<ApplyHardFilters(arg)>>
    /\ pc' = "filter_once"
    /\ UNCHANGED arg

FilterTwice ==
    /\ pc = "filter_once"
    /\ ret' = Append(ret, ApplyHardFilters(ret[1]))
    /\ pc' = "filter_twice"
    /\ UNCHANGED arg

NextFilter == (FilterOnce \/ FilterTwice) /\ UNCHANGED engine_vars

SpecFilter == InitFilter /\ [][NextFilter]_vars

\* xs is ys with some elements removed: same elements, same order, unmodified
RECURSIVE IsSubseq(_, _)
IsSubseq(xs, ys) ==
    IF xs = <<>> THEN TRUE
    ELSE IF ys = <<>> THEN FALSE
    ELSE IF Head(xs) = Head(ys) THEN IsSubseq(Tail(xs), Tail(ys))
    ELSE IsSubseq(xs, Tail(ys))

\* C6: _apply_hard_filters is idempotent (filtering the survivors again
\* returns the same list) and its result is the input list with the rejected
\* matches removed: kept matches are neither reordered nor modified.
C6_HardFilterIdempotent ==
    /\ pc \in {"filter_once", "filter_twice"} => IsSubseq(ret[1], arg)
    /\ pc = "filter_twice" => ret[2] = ret[1]

\* C6 witness: a second pass over two distinct survivors, after a rejection
C6_Witness ==
    /\ pc = "filter_twice"
    /\ Len(arg) >= 2
    /\ Len(ret[1]) >= 1
    /\ Len(ret[1]) < Len(arg)

\* C9, the claim's four rejection conditions, read from its text
C9_BadOpener(m) ==
    LET trimmed == PyStrip(PyLower(m.transcript_text.v))
    IN  \E b \in DOMAIN BAD_OPENERS : StartsWith(trimmed, PyLower(BAD_OPENERS[b]))

C9_JargonDense(m) ==
    LET first == FirstWordsJoined(PyLower(m.transcript_text.v), 50)
        occurring == {j \in DOMAIN JARGON_TERMS : Contains(first, PyLower(JARGON_TERMS[j]))}
    IN  Cardinality(occurring) >= 3

C9_TrailsOff(m) ==
    LET t == PyStrip(m.transcript_text.v)
    IN  t # <<>> /\ t[Len(t)] = "..."

C9_NoQuotable(m) == Len(m.quotable_line.v) < 20

\* C9: a match survives _apply_hard_filters if and only if its text (ignoring
\* case and surrounding blanks) does not start with a bad opener, fewer than 3
\* jargon terms occur in its first 50 words, its text does not end with "..."
\* and its quotable line has at least 20 characters.
C9_SurvivesIff ==
    pc = "filter_once" =>
        \A i \in DOMAIN arg :
            (\E k \in DOMAIN ret[1] : ret[1][k] = arg[i])
            <=> ~(C9_BadOpener(arg[i]) \/ C9_JargonDense(arg[i])
                    \/ C9_TrailsOff(arg[i]) \/ C9_NoQuotable(arg[i]))

\* C9 witness: a 10-character quotable line rejected next to a 20-character
\* one that is kept
C9_Witness ==
    /\ pc = "filter_once"
    /\ \E i \in DOMAIN arg :
          /\ Len(arg[i].quotable_line.v) = 10
          /\ arg[i].transcript_text.v = T_clean
          /\ \A k \in DOMAIN ret[1] : ret[1][k] # arg[i]
    /\ \E i \in DOMAIN arg :
          /\ Len(arg[i].quotable_line.v) = 20
          /\ \E k \in DOMAIN ret[1] : ret[1][k] = arg[i]

(***************************************************************************)
(* _create_candidates as a function under test.                            *)
(***************************************************************************)
GroupTimes ==
    {<<100, 115>>, <<100, 190>>, <<115, 130>>, <<144, 160>>, <<145, 160>>, <<165, 180>>}

GroupSamples ==
    {PatternMatch(p[1], t[1], t[2], StrV(T_clean), StrV(Rep("q", 20)), StrV(<<>>), p[2]) :
        p \in {<<"bold_prediction", 1400000>>, <<"specific_numbers", 1100000>>},
        t \in GroupTimes}

InitGroup ==
    /\ pc = "group_call"
    /\ arg \in SeqsUpTo(GroupSamples, MaxGroupList)
    /\ ret = <<>>
    /\ EngineIdle

GroupCall ==
    /\ pc = "group_call"
    /\ ret' = CreateCandidates(arg)
    /\ pc' = "group_done"
    /\ UNCHANGED arg

NextGroup == GroupCall /\ UNCHANGED engine_vars

SpecGroup == InitGroup /\ [][NextGroup]_vars

\* start-time order of the matches of a list, ties in list order
C10_Before(ms, j, i) ==
    \/ ms[j].start_time < ms[i].start_time
    \/ ms[j].start_time = ms[i].start_time /\ j < i

C10_Precedes(ms, j, i) ==
    /\ C10_Before(ms, j, i)
    /\ ~\E k \in DOMAIN ms : C10_Before(ms, j, k) /\ C10_Before(ms, k, i)

C10_Together(cands, a, b) ==
    \E c \in DOMAIN cands :
        \E p, q \in DOMAIN cands[c].patterns_matched :
            /\ p # q
            /\ cands[c].patterns_matched[p] = a
            /\ cands[c].patterns_matched[q] = b

C10_Count(ms, m) == Cardinality({i \in DOMAIN ms : ms[i] = m})

\* C10: a match that starts less than 30 s after the end of the match
\* preceding it in start-time order is in the same candidate as that match;
\* every match is a member of exactly one candidate, and a candidate spans
\* [min start_time, max end_time] of its members.
C10_MergeWithinGap ==
    pc = "group_done" =>
        /\ \A i, j \in DOMAIN arg :
              (C10_Precedes(arg, j, i) /\ arg[i].start_time - arg[j].end_time < 30)
                  => C10_Together(ret, arg[j], arg[i])
        /\ LET members == Concat([c \in DOMAIN ret |-> ret[c].patterns_matched])
           IN  /\ Len(members) = Len(arg)
               /\ \A i \in DOMAIN arg : C10_Count(members, arg[i]) = C10_Count(arg, arg[i])
        /\ \A c \in DOMAIN ret :
              LET ms == ret[c].patterns_matched
              IN  /\ ms # <<>>
                  /\ \A i \in DOMAIN ms :
                        /\ ret[c].start_time <= ms[i].start_time
                        /\ ms[i].end_time <= ret[c].end_time
                  /\ \E i \in DOMAIN ms : ret[c].start_time = ms[i].start_time
                  /\ \E i \in DOMAIN ms : ret[c].end_time = ms[i].end_time

\* C10 witness: matches starting at 100 s and 115 s merged into one candidate
\* that spans their union
C10_Witness ==
    /\ pc = "group_done"
    /\ Len(arg) = 2
    /\ arg[1].start_time = 115 /\ arg[1].end_time = 130
    /\ arg[2].start_time = 100 /\ arg[2].end_time = 115
    /\ Len(ret) = 1
    /\ ret[1].start_time = 100 /\ ret[1].end_time = 130

(***************************************************************************)
(* _apply_diversity_constraints as a function under test.                  *)
(***************************************************************************)
DiversitySamples ==
    {V3ClipCandidate(s, s + 30, StrV(T_clean), <<>>, 1300000, p, StrV(Rep("q", 20)), StrV(<<>>)) :
        s \in {0, 100, 299, 300, 600}, p \in {"hot_take", "contrast"}}

InitDiversity ==
    /\ pc = "diversity_call"
    /\ arg \in [candidates : SeqsUpTo(DiversitySamples, MaxDiversityList),
                max_clips : 0..MaxClipsArg]
    /\ ret = <<>>
    /\ EngineIdle

DiversityCall ==
    /\ pc = "diversity_call"
    /\ ret' = ApplyDiversityConstraints(arg.candidates, arg.max_clips)
    /\ pc' = "diversity_done"
    /\ UNCHANGED arg

NextDiversity == DiversityCall /\ UNCHANGED engine_vars

SpecDiversity == InitDiversity /\ [][NextDiversity]_vars

\* C3: any two candidates at different positions of the list returned by
\* _apply_diversity_constraints start at least min_gap_seconds (300) apart.
C3_SelectedGap ==
    pc = "diversity_done" =>
        \A i, j \in DOMAIN ret :
            i # j => Abs(ret[i].start_time - ret[j].start_time) >= 300

\* C3 witness: a candidate is passed over for being too close while a slot
\* is free, and two candidates exactly 300 s apart are both selected
C3_Witness ==
    /\ pc = "diversity_done"
    /\ Len(ret) = 2
    /\ Len(ret) < arg.max_clips
    /\ Abs(ret[1].start_time - ret[2].start_time) = 300
    /\ Len(arg.candidates) = 3

(***************************************************************************)
(* ClipFinderV3.find_clips.                                                *)
(***************************************************************************)
TR_empty == <<>>
TR_one == <<Segment(0, 30, <<"a">>)>>
TR_gap == <<Segment(0, 20, <<"a">>), Segment(30, 55, <<SP>>), Segment(96, 99, <<"c">>)>>
TR_dense ==
    <<Segment(0, 30, <<"a">>), Segment(30, 60, <<"b">>), Segment(60, 100, <<>>),
      Segment(100, 130, <<"c">>), Segment(130, 400, <<"d">>)>>

Transcripts == {TR_empty, TR_one, TR_gap, TR_dense}

Channels == {<<"Bankless">>, <<"Bell", SP, "Curve">>, <<"other">>, <<>>}

\* pattern strings of the model, by what _get_pattern_id reads of them
P_bold == [full |-> {"bold_prediction"}, partial |-> {"bold_prediction"}]
P_take == [full |-> {}, partial |-> {"hot_take", "bold_prediction"}]
P_numbers == [full |-> {"specific_numbers"}, partial |-> {"specific_numbers"}]

\* a response item; the model explains every item in one word, which is
\* "numbers" for an item about numbers and "bold" otherwise
Item(pattern, s, e, text, quot) ==
    [t |-> "obj", pattern |-> pattern, start_time |-> s, end_time |-> e,
     transcript |-> text, quotable_line |-> quot,
     why_good |-> IF IsStr(pattern) /\ pattern.v = P_numbers THEN StrV(<<"numbers">>)
                  ELSE StrV(<<"bold">>)]

Quote20 == StrV(Rep("q", MinQuotableLen))

\* kept by the scan; its transcript is text of the model
I_bold == Item(StrV(P_bold), NumV(100), NumV(130), StrV(T_clean), Quote20)
\* of the maximum duration, far from the others, with a number in its text
I_far == Item(StrV(P_numbers), NumV(400), NumV(400 + MaxDuration), StrV(T_lead_dots), Quote20)
\* of the minimum duration; the hard filter rejects its opener
I_late == Item(StrV(P_take), NumV(700), NumV(700 + MinDuration), StrV(T_opener), Quote20)
\* kept by the scan with "transcript": null
I_null == Item(StrV(P_take), NumV(100), NumV(130), NullV, Quote20)
\* one second short of the minimum, one second over the maximum
I_short == Item(StrV(P_bold), NumV(100), NumV(100 + MinDuration - 1), StrV(T_clean), Quote20)
I_long == Item(StrV(P_bold), NumV(100), NumV(100 + MaxDuration + 1), StrV(T_clean), Quote20)
\* no "pattern" key
I_nopattern == Item(MissingV, NumV(100), NumV(130), StrV(T_clean), Quote20)
\* "start_time" is a string: the subtraction raises
I_badtime == Item(StrV(P_bold), StrV(<<"100s">>), NumV(130), StrV(T_clean), Quote20)

\* of the minimum duration and of higher weight than I_far, starting inside
\* I_far and ending after it, with a quotable line of its own
I_tail ==
    Item(StrV(P_bold), NumV(480), NumV(480 + MinDuration), StrV(T_clean),
         StrV(Rep("q", MinQuotableLen + 1)))

V3Items ==
    {I_bold, I_far, I_late, I_null, I_short, I_long, I_nopattern, I_badtime, I_tail}

V3Responses ==
    {[kind |-> k, items |-> <<>>] : k \in {"RAISES", "NOT_JSON", "NOT_OBJECT"}}
    \cup {[kind |-> "object", items |-> ms] : ms \in SeqsUpTo(V3Items, MaxItems)}

Init ==
    /\ pc = "idle"
    /\ arg = <<>>
    /\ ret = <<>>
    /\ transcript \in Transcripts
    /\ current_transcript = NoTranscript
    /\ tier = "B"
    /\ chunks_left = <<>>
    /\ raw_matches = <<>>
    /\ filtered_matches = <<>>
    /\ clip_candidates = <<>>
    /\ attempt = 0
    /\ prompt = "primary"
    /\ llm_calls = 0
    /\ content = NoResponse
    /\ result = <<>>
    /\ engine = "none"

\* find_clips up to the first completion call of _scan_for_patterns
V3FindClips ==
    /\ pc = "idle"
    /\ \E channel_name \in Channels : tier' = GetChannelTier(channel_name)
    /\ engine' = "v3"
    /\ chunks_left' = CreateScanChunks(transcript)
    /\ pc' = "v3_scan"
    /\ UNCHANGED <<harness_vars, transcript, current_transcript, raw_matches,
                   filtered_matches, clip_candidates, attempt, prompt, llm_calls,
                   content, result>>

\* the completion call of _scan_chunk_for_patterns for the next chunk answers
V3Chat ==
    /\ pc = "v3_scan"
    /\ chunks_left # <<>>
    /\ content' \in V3Responses
    /\ llm_calls' = llm_calls + 1
    /\ pc' = "v3_got"
    /\ UNCHANGED <<harness_vars, transcript, current_transcript, tier, chunks_left,
                   raw_matches, filtered_matches, clip_candidates, attempt, prompt,
                   result, engine>>

\* the rest of _scan_chunk_for_patterns and all_matches.extend(matches)
V3ScanChunk ==
    /\ pc = "v3_got"
    /\ raw_matches' = raw_matches \o ScanChunkForPatterns(content)
    /\ chunks_left' = Tail(chunks_left)
    /\ content' = NoResponse
    /\ pc' = "v3_scan"
    /\ UNCHANGED <<harness_vars, transcript, current_transcript, tier,
                   filtered_matches, clip_candidates, attempt, prompt, llm_calls,
                   result, engine>>

\* find_clips after the scan: steps 2 to 6 run without a further await
V3Finish ==
    /\ pc = "v3_scan"
    /\ chunks_left = <<>>
    /\ IF raw_matches = <<>>
       THEN /\ pc' = "done"
            /\ UNCHANGED <<filtered_matches, clip_candidates, result>>
       ELSE IF HardFiltersRaise(raw_matches)
       THEN /\ pc' = "raised"
            /\ UNCHANGED <<filtered_matches, clip_candidates, result>>
       ELSE LET filtered == ApplyHardFilters(raw_matches)
                scored == ScoreCandidates(CreateCandidates(filtered))
                settings == TierSettings(tier)
            IN  /\ pc' = "done"
                /\ filtered_matches' = filtered
                /\ clip_candidates' = scored
                /\ result' = ApplyDiversityConstraints(
                                  ApplyThreshold(scored, settings.min_score_threshold),
                                  settings.max_clips_per_video)
    /\ UNCHANGED <<harness_vars, transcript, current_transcript, tier, chunks_left,
                   raw_matches, attempt, prompt, llm_calls, content, engine>>

NextV3 == V3FindClips \/ V3Chat \/ V3ScanChunk \/ V3Finish

SpecV3 == Init /\ [][NextV3]_vars

(***************************************************************************)
(* ClipFinderV4.find_clips.  Numbers the model writes as strings are       *)
(* sequences of characters.                                                *)
(***************************************************************************)
Digits == <<"0", "1", "2", "3", "4", "5", "6", "7", "8", "9">>

IsDigitChar(c) == \E d \in DOMAIN Digits : Digits[d] = c

DigitVal(c) == (CHOOSE d \in DOMAIN Digits : Digits[d] = c) - 1

NotS(c) == c # "s"

\* str.replace("s", "")
RemoveS(str) == SelectSeq(str, NotS)

RECURSIVE DecimalValue(_)
DecimalValue(ds) ==
    IF ds = <<>> THEN 0
    ELSE 10 * DecimalValue(SubSeq(ds, 1, Len(ds) - 1)) + DigitVal(ds[Len(ds)])

\* float(text) raises ValueError
FloatRaises(str) == str = <<>> \/ \E i \in DOMAIN str : ~IsDigitChar(str[i])

\* isinstance(x, str): x = float(x.replace("s", "")), as a tagged value;
\* the tag "raise" stands for the ValueError
V4Time(x) ==
    IF IsStr(x)
    THEN IF FloatRaises(RemoveS(x.v)) THEN [t |-> "raise", v |-> 0]
         ELSE NumV(DecimalValue(RemoveS(x.v)))
    ELSE x

Overlaps(seg, start_time, end_time) == seg.start < end_time /\ seg.end > start_time

WithinBuffer(seg, start_time, end_time) ==
    seg.start >= start_time - 5 /\ seg.end <= end_time + 5

SegTexts(segs) == [i \in DOMAIN segs |-> segs[i].text]

\* ClipFinderV4._get_real_transcript
V4GetRealTranscript(segments, start_time, end_time) ==
    LET IsOver(seg) == Overlaps(seg, start_time, end_time)
        IsNear(seg) == WithinBuffer(seg, start_time, end_time)
        overlapping == SelectSeq(segments, IsOver)
        relevant_segments ==
            IF overlapping # <<>> THEN overlapping ELSE SelectSeq(segments, IsNear)
    IN  PyStrip(PyJoin(<<SP>>, SegTexts(relevant_segments)))

\* a mutant: a clip without transcript text is kept
NotGroundedNever(real_transcript) == FALSE

\* "if not real_transcript" / "if not real_text"
NotGrounded(real_transcript) == real_transcript = <<>>

V4IntroSeconds == 30
V4MinDuration == 25
V4MaxDuration == 120

V4DurationOutOfBand(duration) == duration < V4MinDuration \/ duration > V4MaxDuration

\* what the loop body of find_clips does with one clip of the response:
\* "raise", "skip" (continue) or "append"
V4Item(c, segments) ==
    IF c.t # "obj" THEN "raise"
    ELSE LET start == V4Time(Get(c.start_time, NumV(0)))
             end == V4Time(Get(c.end_time, NumV(0)))
         IN  IF start.t = "raise" \/ end.t = "raise" THEN "raise"
             ELSE IF ~IsNum(start) THEN "raise"
             ELSE IF start.v < V4IntroSeconds THEN "skip"
             ELSE IF ~IsNum(end) THEN "raise"
             ELSE IF V4DurationOutOfBand(end.v - start.v) THEN "skip"
             ELSE IF NotGrounded(V4GetRealTranscript(segments, start.v, end.v)) THEN "skip"
             ELSE "append"

SimpleClip(s, e, text, quot, pattern) ==
    [start_time |-> s, end_time |-> e, transcript_text |-> text,
     quotable_line |-> quot, pattern |-> pattern]

V4Clip(c, segments) ==
    LET start == V4Time(Get(c.start_time, NumV(0))).v
        end == V4Time(Get(c.end_time, NumV(0))).v
    IN  SimpleClip(start, end, V4GetRealTranscript(segments, start, end),
                   Get(c.quotable_line, StrV(<<>>)), Get(c.pattern, StrV(EmptyPattern)))

\* the clips list one attempt builds from a response that is an object
V4Clips(items, segments) ==
    LET IsKept(c) == V4Item(c, segments) = "append"
        kept == SelectSeq(items, IsKept)
    IN  [i \in DOMAIN kept |-> V4Clip(kept[i], segments)]

\* how one attempt ends: "return" (clips found), "retry" (continue with the
\* simple prompt), "fail" (the loop is left, find_clips returns [])
V4Attempt(resp, segments, n) ==
    IF resp.kind = "RAISES" \/ resp.kind = "NOT_OBJECT" THEN "fail"
    ELSE IF resp.kind = "NOT_JSON" THEN IF n = 0 THEN "retry" ELSE "fail"
    ELSE IF \E i \in DOMAIN resp.items : V4Item(resp.items[i], segments) = "raise"
         THEN "fail"
    ELSE IF V4Clips(resp.items, segments) # <<>> THEN "return"
    ELSE IF n = 0 THEN "retry" ELSE "fail"

V4MaxClips == 3

K_ok == Item(StrV(P_bold), NumV(100), NumV(100 + V4MinDuration), StrV(T_clean), Quote20)
\* times written as strings, of the maximum duration
K_str ==
    Item(StrV(P_bold), StrV(<<"1", "0", "0", "s">>), StrV(<<"2", "2", "0", "s">>),
         StrV(T_clean), Quote20)
K_intro == Item(StrV(P_bold), NumV(20), NumV(50), StrV(T_clean), Quote20)
K_short == Item(StrV(P_bold), NumV(100), NumV(100 + V4MinDuration - 1), StrV(T_clean), Quote20)
K_long == Item(StrV(P_bold), NumV(100), NumV(100 + V4MaxDuration + 1), StrV(T_clean), Quote20)
K_null == Item(StrV(P_bold), NullV, NumV(130), StrV(T_clean), Quote20)
\* overlapped by a segment of blank text in TR_gap
K_blank == Item(StrV(P_bold), NumV(30), NumV(55), StrV(T_clean), Quote20)
\* past the end of every transcript
K_far == Item(StrV(P_bold), NumV(500), NumV(530), StrV(T_clean), Quote20)

V4Items == {K_ok, K_str, K_intro, K_short, K_long, K_null, K_blank, K_far}

V4Responses ==
    {[kind |-> k, items |-> <<>>] : k \in {"RAISES", "NOT_JSON", "NOT_OBJECT"}}
    \cup {[kind |-> "object", items |-> cs] : cs \in SeqsUpTo(V4Items, MaxItems)}
    \cup {[kind |-> "object", items |-> cs] :
             cs \in UNION {[1..k -> {K_ok, K_str}] : k \in (MaxItems + 1)..MaxGoodClips}}

\* find_clips up to the first completion call
V4FindClips ==
    /\ pc = "idle"
    /\ engine' = "v4"
    /\ current_transcript' = [set |-> TRUE, segments |-> transcript]
    /\ attempt' = 0
    /\ prompt' = "primary"
    /\ pc' = "v4_call"
    /\ UNCHANGED <<harness_vars, transcript, tier, chunks_left, raw_matches,
                   filtered_matches, clip_candidates, llm_calls, content, result>>

\* content = await llm.chat(prompt, json_mode=True) answers or raises
V4Chat ==
    /\ pc = "v4_call"
    /\ content' \in V4Responses
    /\ llm_calls' = llm_calls + 1
    /\ pc' = "v4_got"
    /\ UNCHANGED <<harness_vars, transcript, current_transcript, tier, chunks_left,
                   raw_matches, filtered_matches, clip_candidates, attempt, prompt,
                   result, engine>>

\* the rest of one iteration of "for attempt in range(2)"
V4Process ==
    /\ pc = "v4_got"
    /\ LET outcome == V4Attempt(content, current_transcript.segments, attempt)
       IN  /\ pc' = IF outcome = "retry" THEN "v4_call" ELSE "done"
           /\ attempt' = IF outcome = "retry" THEN attempt + 1 ELSE attempt
           /\ prompt' = IF outcome = "retry" THEN "simple" ELSE prompt
           /\ result' = IF outcome = "return"
                            THEN Take(V4Clips(content.items, current_transcript.segments),
                                      V4MaxClips)
                            ELSE <<>>
    /\ UNCHANGED <<harness_vars, transcript, current_transcript, tier, chunks_left,
                   raw_matches, filtered_matches, clip_candidates, llm_calls, content,
                   engine>>

NextV4 == V4FindClips \/ V4Chat \/ V4Process

SpecV4 == Init /\ [][NextV4]_vars

(***************************************************************************)
(* ClipFinderV5.find_clips.  Each pass is one step: the completions of a   *)
(* pass are drawn together, one per candidate.                             *)
(***************************************************************************)
\* float(str(x or 0).replace("s", "")), as a tagged value; a number prints
\* as its digits
V5Time(x) ==
    IF x.t = "null" \/ x.t = "missing" \/ (IsNum(x) /\ x.v = 0) \/ (IsStr(x) /\ x.v = <<>>)
    THEN NumV(0)
    ELSE IF IsStr(x)
    THEN IF FloatRaises(RemoveS(x.v)) THEN [t |-> "raise", v |-> 0]
         ELSE NumV(DecimalValue(RemoveS(x.v)))
    ELSE x

\* float(str(end).replace("s", ""))
V5EndTime(x) ==
    IF IsStr(x)
    THEN IF FloatRaises(RemoveS(x.v)) THEN [t |-> "raise", v |-> 0]
         ELSE NumV(DecimalValue(RemoveS(x.v)))
    ELSE x

V5DefaultSeconds == 45
V5CapSeconds == 60

\* a mutant: the end the answer gave is kept whatever the duration
V5EndAsGiven(c, start) ==
    LET given == c.end_time
    IN  IF given.t = "null" \/ given.t = "missing" \/ (IsNum(given) /\ given.v = 0)
        THEN start + V5DefaultSeconds
        ELSE V5EndTime(given).v

\* end as _find_candidates settles it for a clip starting at start
V5End(c, start) ==
    LET given == c.end_time
        end == IF given.t = "null" \/ given.t = "missing" \/ (IsNum(given) /\ given.v = 0)
               THEN start + V5DefaultSeconds
               ELSE V5EndTime(given).v
    IN  IF end - start < V4MinDuration THEN start + V5DefaultSeconds
        ELSE IF end - start > V4MaxDuration THEN start + V5CapSeconds
        ELSE end

\* ClipFinderV5._get_real_transcript
V5GetRealTranscript(segments, start, end) ==
    LET IsOver(seg) == Overlaps(seg, start, end)
    IN  PyStrip(PyJoin(<<SP>>, SegTexts(SelectSeq(segments, IsOver))))

\* what the loop body of _find_candidates does with one item
V5Item(c, segments) ==
    IF c.t # "obj" THEN "raise"
    ELSE LET start == V5Time(c.start_time)
             given == c.end_time
         IN  IF start.t = "raise" THEN "raise"
             ELSE IF ~(given.t = "null" \/ given.t = "missing" \/ (IsNum(given) /\ given.v = 0))
                     /\ V5EndTime(given).t = "raise" THEN "raise"
             ELSE IF start.v < V4IntroSeconds THEN "skip"
             ELSE IF NotGrounded(V5GetRealTranscript(segments, start.v, V5End(c, start.v)))
                  THEN "skip"
             ELSE "append"

DefaultScore == 5

ClipCandidate(s, e, text, quot, pattern) ==
    [start_time |-> s, end_time |-> e, transcript_text |-> text,
     quotable_line |-> quot, pattern |-> pattern, score |-> NumV(0)]

V5Candidate(c, segments) ==
    LET start == V5Time(c.start_time).v
        end == V5End(c, start)
    IN  ClipCandidate(start, end, V5GetRealTranscript(segments, start, end),
                      Get(c.quotable_line, StrV(<<>>)), Get(c.pattern, StrV(EmptyPattern)))

\* ClipFinderV5._find_candidates, given the answer of its completion call
V5FindCandidatesOf(resp, segments) ==
    IF resp.kind # "object" THEN <<>>
    ELSE IF \E i \in DOMAIN resp.items : V5Item(resp.items[i], segments) = "raise"
         THEN <<>>
    ELSE LET IsKept(c) == V5Item(c, segments) = "append"
             kept == SelectSeq(resp.items, IsKept)
         IN  [i \in DOMAIN kept |-> V5Candidate(kept[i], segments)]

\* what _score_single returns: {"score": 5.0} when the call raised, {} for
\* text without an object, else the parsed JSON value
ScoreResults ==
    {[kind |-> "RAISES", score |-> NumV(DefaultScore)],
     [kind |-> "NOT_JSON", score |-> MissingV],
     [kind |-> "NOT_OBJECT", score |-> MissingV],
     [kind |-> "object", score |-> NumV(9)],
     [kind |-> "object", score |-> NullV]}

\* result.get("score", 5.0) raises AttributeError on a value that is no dict
ScoreRaises(results) == \E i \in DOMAIN results : results[i].kind = "NOT_OBJECT"

\* the loop of _score_candidates over zip(candidates, results)
V5Scored(cands, results) ==
    [i \in DOMAIN cands |->
        [cands[i] EXCEPT !.score = Get(results[i].score, NumV(DefaultScore))]]

\* scored.sort(key=lambda c: c.score, reverse=True) raises TypeError when it
\* compares None with anything
SortRaises(scored) ==
    Len(scored) > 1 /\ \E i \in DOMAIN scored : ~IsNum(scored[i].score)

RECURSIVE InsertByV5Score(_, _)
InsertByV5Score(sorted, c) ==
    IF sorted = <<>> THEN <<c>>
    ELSE IF sorted[Len(sorted)].score.v >= c.score.v THEN Append(sorted, c)
    ELSE Append(InsertByV5Score(SubSeq(sorted, 1, Len(sorted) - 1), c), sorted[Len(sorted)])

RECURSIVE SortByV5Score(_)
SortByV5Score(cands) ==
    IF Len(cands) <= 1 THEN cands
    ELSE InsertByV5Score(SortByV5Score(SubSeq(cands, 1, Len(cands) - 1)), cands[Len(cands)])

V5MaxClips == 5
PolishMaxLen == 100

\* what the completion of _polish_single answers, after the strip calls
PolishResults ==
    {[kind |-> "RAISES", text |-> <<>>],
     [kind |-> "text", text |-> <<"punchy">>],
     [kind |-> "text", text |-> <<>>],
     [kind |-> "text", text |-> Rep("x", PolishMaxLen)]}

\* _polish_single and the assignment in _polish_quotes
Polished(clip, r) ==
    LET returned == IF r.kind = "text" /\ Len(r.text) < PolishMaxLen
                    THEN StrV(r.text) ELSE clip.quotable_line
    IN  IF IsStr(returned) /\ returned.v # <<>>
        THEN [clip EXCEPT !.quotable_line = returned]
        ELSE clip

V5Items == V4Items

V5Responses ==
    {[kind |-> k, items |-> <<>>] : k \in {"RAISES", "NOT_JSON", "NOT_OBJECT"}}
    \cup {[kind |-> "object", items |-> cs] : cs \in SeqsUpTo(V5Items, MaxItems)}

\* find_clips up to the completion call of pass 1
V5FindClips ==
    /\ pc = "idle"
    /\ engine' = "v5"
    /\ current_transcript' = [set |-> TRUE, segments |-> transcript]
    /\ pc' = "v5_pass1"
    /\ UNCHANGED <<harness_vars, transcript, tier, chunks_left, raw_matches,
                   filtered_matches, clip_candidates, attempt, prompt, llm_calls,
                   content, result>>

\* a task of a fan-out whose completion call has not returned yet
PendingScore == [kind |-> "pending", score |-> MissingV]
PendingQuote == [kind |-> "pending", text |-> <<>>]

\* the tasks asyncio.gather runs, one per candidate; content holds what each
\* has returned so far
Tasks(kind, cands, pending) == [kind |-> kind, items |-> [i \in DOMAIN cands |-> pending]]

AllJoined == \A i \in DOMAIN content.items : content.items[i].kind # "pending"

\* pass 1: _find_candidates from its completion call on; with candidates,
\* find_clips goes on to create the scoring tasks
V5FindCandidates ==
    /\ pc = "v5_pass1"
    /\ \E resp \in V5Responses :
           LET found == V5FindCandidatesOf(resp, current_transcript.segments)
           IN  /\ clip_candidates' = found
               /\ pc' = IF found = <<>> THEN "done" ELSE "v5_pass2"
               /\ content' = IF found = <<>> THEN content
                             ELSE Tasks("scores", found, PendingScore)
    /\ llm_calls' = llm_calls + 1
    /\ UNCHANGED <<harness_vars, transcript, current_transcript, tier, chunks_left,
                   raw_matches, filtered_matches, attempt, prompt, result, engine>>

\* pass 2: the completion call of one _score_single task returns; the tasks
\* finish in any order
V5ScoreSingle ==
    /\ pc = "v5_pass2"
    /\ \E i \in DOMAIN content.items :
           /\ content.items[i].kind = "pending"
           /\ \E r \in ScoreResults : content' = [content EXCEPT !.items[i] = r]
    /\ llm_calls' = llm_calls + 1
    /\ UNCHANGED <<pc, harness_vars, transcript, current_transcript, tier, chunks_left,
                   raw_matches, filtered_matches, clip_candidates, attempt, prompt,
                   result, engine>>

\* pass 2 after the gather: the loop of _score_candidates, then the sort, the
\* cut to max_clips and the creation of the polishing tasks
V5ScoreCandidates ==
    /\ pc = "v5_pass2"
    /\ AllJoined
    /\ LET results == content.items
       IN  IF ScoreRaises(results) \/ SortRaises(V5Scored(clip_candidates, results))
           THEN /\ pc' = "raised"
                /\ UNCHANGED <<clip_candidates, content>>
           ELSE LET top_clips ==
                        Take(SortByV5Score(V5Scored(clip_candidates, results)), V5MaxClips)
                IN  /\ pc' = "v5_pass3"
                    /\ clip_candidates' = top_clips
                    /\ content' = Tasks("quotes", top_clips, PendingQuote)
    /\ UNCHANGED <<harness_vars, transcript, current_transcript, tier, chunks_left,
                   raw_matches, filtered_matches, attempt, prompt, llm_calls, result,
                   engine>>

\* pass 3: the completion call of one _polish_single task returns
V5PolishSingle ==
    /\ pc = "v5_pass3"
    /\ \E i \in DOMAIN content.items :
           /\ content.items[i].kind = "pending"
           /\ \E r \in PolishResults : content' = [content EXCEPT !.items[i] = r]
    /\ llm_calls' = llm_calls + 1
    /\ UNCHANGED <<pc, harness_vars, transcript, current_transcript, tier, chunks_left,
                   raw_matches, filtered_matches, clip_candidates, attempt, prompt,
                   result, engine>>

\* pass 3 after the gather: the loop of _polish_quotes and the return
V5PolishQuotes ==
    /\ pc = "v5_pass3"
    /\ AllJoined
    /\ result' = [i \in DOMAIN clip_candidates |->
                     Polished(clip_candidates[i], content.items[i])]
    /\ pc' = "done"
    /\ UNCHANGED <<harness_vars, transcript, current_transcript, tier, chunks_left,
                   raw_matches, filtered_matches, clip_candidates, attempt, prompt,
                   llm_calls, content, engine>>

NextV5 ==
    \/ V5FindClips \/ V5FindCandidates
    \/ V5ScoreSingle \/ V5ScoreCandidates
    \/ V5PolishSingle \/ V5PolishQuotes

SpecV5 == Init /\ [][NextV5]_vars

Next == NextV3 \/ NextV4 \/ NextV5

Spec == Init /\ [][Next]_vars

(***************************************************************************)
(* ClipFinderV4._parse_json_response.  A content is a sequence of          *)
(* characters; a word or a number is one token of it.  A parsed dict is a  *)
(* function from its keys, a parsed list a sequence.                       *)
(***************************************************************************)
LB == "{"
RB == "}"
LK == "["
RK == "]"
CM == ","
CL == ":"
QT == "\""
NL == "\n"

\* the numbers that occur in the contents under test, with their values
NumberTokens == <<[tok |-> "100", val |-> 100], [tok |-> "130", val |-> 130]>>

IsNumberToken(tok) == \E i \in DOMAIN NumberTokens : NumberTokens[i].tok = tok

NumberValue(tok) ==
    NumberTokens[CHOOSE i \in DOMAIN NumberTokens : NumberTokens[i].tok = tok].val

IsWs(tok) == tok = SP \/ tok = NL

\* str.strip() of a content: blanks and newlines go
StripWs(s) ==
    IF \A i \in DOMAIN s : IsWs(s[i]) THEN <<>>
    ELSE SubSeq(s,
                CHOOSE i \in DOMAIN s : ~IsWs(s[i]) /\ \A j \in 1..(i - 1) : IsWs(s[j]),
                CHOOSE i \in DOMAIN s : ~IsWs(s[i]) /\ \A j \in (i + 1)..Len(s) : IsWs(s[j]))

\* the first position from i on that holds no whitespace, Len(s) + 1 if none
SkipWs(s, i) ==
    IF i > Len(s) THEN Len(s) + 1
    ELSE CHOOSE j \in i..(Len(s) + 1) :
             /\ j = Len(s) + 1 \/ ~IsWs(s[j])
             /\ \A k \in i..(j - 1) : IsWs(s[k])

ArrV(elems) == [t |-> "arr", v |-> elems]

\* a dict from its members in textual order: a repeated key keeps its last value
ObjV(members) ==
    [t |-> "obj",
     v |-> [key \in {members[i].k : i \in DOMAIN members} |->
               members[CHOOSE i \in DOMAIN members :
                           /\ members[i].k = key
                           /\ \A j \in (i + 1)..Len(members) : members[j].k # key].v]]

ParseFail == [ok |-> FALSE, val |-> NullV, next |-> 0]

ParseOk(val, next) == [ok |-> TRUE, val |-> val, next |-> next]

\* a JSON string that starts at the quote s[i]; a raw newline in it is an error
ParseString(s, i) ==
    LET closes == {j \in (i + 1)..Len(s) : s[j] = QT}
    IN  IF closes = {} THEN ParseFail
        ELSE LET j == CHOOSE c \in closes : \A d \in closes : c <= d
                 body == SubSeq(s, i + 1, j - 1)
             IN  IF \E b \in DOMAIN body : body[b] = NL THEN ParseFail
                 ELSE ParseOk(StrV(body), j + 1)

RECURSIVE ParseValue(_, _), ParseElems(_, _, _), ParseMembers(_, _, _)

\* the JSON value that starts at or after position i0
ParseValue(s, i0) ==
    LET i == SkipWs(s, i0)
    IN  IF i > Len(s) THEN ParseFail
        ELSE IF s[i] = QT THEN ParseString(s, i)
        ELSE IF IsNumberToken(s[i]) THEN ParseOk(NumV(NumberValue(s[i])), i + 1)
        ELSE IF s[i] = "null" THEN ParseOk(NullV, i + 1)
        ELSE IF s[i] = LK
             THEN LET j == SkipWs(s, i + 1)
                  IN  IF j <= Len(s) /\ s[j] = RK THEN ParseOk(ArrV(<<>>), j + 1)
                      ELSE ParseElems(s, i + 1, <<>>)
        ELSE IF s[i] = LB
             THEN LET j == SkipWs(s, i + 1)
                  IN  IF j <= Len(s) /\ s[j] = RB THEN ParseOk(ObjV(<<>>), j + 1)
                      ELSE ParseMembers(s, i + 1, <<>>)
        ELSE ParseFail

\* the elements of a list after "[" or ","
ParseElems(s, i, acc) ==
    LET r == ParseValue(s, i)
        k == SkipWs(s, r.next)
    IN  IF ~r.ok \/ k > Len(s) THEN ParseFail
        ELSE IF s[k] = CM THEN ParseElems(s, k + 1, Append(acc, r.val))
        ELSE IF s[k] = RK THEN ParseOk(ArrV(Append(acc, r.val)), k + 1)
        ELSE ParseFail

\* the members of a dict after "{" or ","
ParseMembers(s, i, acc) ==
    LET q == SkipWs(s, i)
        key == ParseString(s, q)
        c == SkipWs(s, key.next)
        r == ParseValue(s, c + 1)
        k == SkipWs(s, r.next)
        member == [k |-> key.val.v, v |-> r.val]
    IN  IF q > Len(s) \/ s[q] # QT THEN ParseFail
        ELSE IF ~key.ok \/ c > Len(s) \/ s[c] # CL THEN ParseFail
        ELSE IF ~r.ok \/ k > Len(s) THEN ParseFail
        ELSE IF s[k] = CM THEN ParseMembers(s, k + 1, Append(acc, member))
        ELSE IF s[k] = RB THEN ParseOk(ObjV(Append(acc, member)), k + 1)
        ELSE ParseFail

\* json.loads(s): ok is FALSE for JSONDecodeError
JsonLoads(s) ==
    LET r == ParseValue(s, 1)
    IN  IF r.ok /\ SkipWs(s, r.next) > Len(s) THEN [ok |-> TRUE, val |-> r.val]
        ELSE [ok |-> FALSE, val |-> NullV]

\* s[p], or the empty token past the end
At(s, p) == IF p \in DOMAIN s THEN s[p] ELSE ""

\* s restricted to the positions in keep, in order
AtPositions(s, keep) ==
    [n \in 1..Cardinality(keep) |->
        s[CHOOSE i \in keep : Cardinality({j \in keep : j < i}) = n - 1]]

\* content.find("{"), counted from 1; 0 for -1
FindBrace(s) ==
    IF \E i \in DOMAIN s : s[i] = LB
    THEN CHOOSE i \in DOMAIN s : s[i] = LB /\ \A j \in 1..(i - 1) : s[j] # LB
    ELSE 0

\* brace_count after the characters start_idx..i
BraceCount(s, start_idx, i) ==
    Cardinality({j \in start_idx..i : s[j] = LB}) - Cardinality({j \in start_idx..i : s[j] = RB})

\* the position of the "}" at which brace_count first returns to 0; 0 if none
MatchingBrace(s, start_idx) ==
    LET zeros == {i \in start_idx..Len(s) : s[i] = RB /\ BraceCount(s, start_idx, i) = 0}
    IN  IF zeros = {} THEN 0 ELSE CHOOSE i \in zeros : \A j \in zeros : i <= j

\* a "," that only whitespace separates from a "}" or "]"
IsTrailingComma(s, c) ==
    /\ s[c] = CM
    /\ At(s, SkipWs(s, c + 1)) \in {RB, RK}

\* re.sub(r',\s*([}\]])', r'\1', s): the comma and the whitespace after it go
RemoveTrailingCommas(s) ==
    AtPositions(s, {i \in DOMAIN s :
                       ~\E c \in 1..i : IsTrailingComma(s, c) /\ i < SkipWs(s, c + 1)})

\* re.sub(r'(?<!\\)\n', ' ', s)
NewlinesToBlanks(s) == [i \in DOMAIN s |-> IF s[i] = NL THEN SP ELSE s[i]]

\* clip_pattern matched at the "{" s[i]: the positions of its three groups
ClipPatternAt(s, i) ==
    LET k1 == SkipWs(s, i + 1)
        c1 == SkipWs(s, k1 + 3)
        n1 == SkipWs(s, c1 + 1)
        m1 == SkipWs(s, n1 + 1)
        k2 == SkipWs(s, m1 + 1)
        c2 == SkipWs(s, k2 + 3)
        n2 == SkipWs(s, c2 + 1)
        m2 == SkipWs(s, n2 + 1)
        k3 == SkipWs(s, m2 + 1)
        c3 == SkipWs(s, k3 + 3)
        q == SkipWs(s, c3 + 1)
        closes == {j \in (q + 1)..Len(s) : s[j] = QT}
        IsKey(k, name) == At(s, k) = QT /\ At(s, k + 1) = name /\ At(s, k + 2) = QT
    IN  [ok |-> /\ s[i] = LB
                /\ IsKey(k1, "start_time") /\ At(s, c1) = CL /\ IsNumberToken(At(s, n1))
                /\ At(s, m1) = CM
                /\ IsKey(k2, "end_time") /\ At(s, c2) = CL /\ IsNumberToken(At(s, n2))
                /\ At(s, m2) = CM
                /\ IsKey(k3, "transcript") /\ At(s, c3) = CL /\ At(s, q) = QT
                /\ closes # {},
         start |-> n1, end |-> n2, open |-> q,
         close |-> IF closes = {} THEN 0 ELSE CHOOSE j \in closes : \A d \in closes : j <= d]

Member(key, val) == [k |-> <<key>>, v |-> val]

QuotableMaxLen == 100

\* the dict the regex fallback builds from one match
ExtractedClip(s, m) ==
    LET clip_transcript == SubSeq(s, m.open + 1, m.close - 1)
    IN  ObjV(<<Member("start_time", NumV(NumberValue(s[m.start]))),
               Member("end_time", NumV(NumberValue(s[m.end]))),
               Member("transcript", StrV(clip_transcript)),
               Member("quotable_line",
                      StrV(IF Len(clip_transcript) > QuotableMaxLen
                           THEN Take(clip_transcript, QuotableMaxLen) ELSE clip_transcript)),
               Member("pattern", StrV(<<"EXTRACTED">>)),
               Member("why_good",
                      StrV(<<"Extracted", SP, "from", SP, "malformed", SP, "response">>)),
               Member("speaker", NullV)>>)

\* re.findall(clip_pattern, content) and the clips built from it
ExtractClips(s) ==
    LET at == {i \in DOMAIN s : ClipPatternAt(s, i).ok}
        found == AtPositions([i \in DOMAIN s |-> i], at)
    IN  [n \in DOMAIN found |-> ExtractedClip(s, ClipPatternAt(s, found[n]))]

\* ClipFinderV4._parse_json_response; None is NullV
ParseJsonResponse(raw) ==
    LET stripped == StripWs(raw)
        start_idx == FindBrace(stripped)
        end_idx == MatchingBrace(stripped, start_idx)
        cut == IF end_idx = 0
               THEN SubSeq(stripped, start_idx, Len(stripped)) \o <<RB, RK, RB>>
               ELSE SubSeq(stripped, start_idx, end_idx)
        fixed == NewlinesToBlanks(RemoveTrailingCommas(cut))
        clips == ExtractClips(cut)
        direct == JsonLoads(stripped)
        second == JsonLoads(cut)
        repaired == JsonLoads(fixed)
    IN  IF direct.ok THEN direct.val
        ELSE IF start_idx = 0 THEN NullV
        ELSE IF second.ok THEN second.val
        ELSE IF repaired.ok THEN repaired.val
        ELSE IF clips # <<>> THEN ObjV(<<Member("clips", ArrV(clips))>>)
        ELSE NullV

(***************************************************************************)
(* _parse_json_response as a function under test: the content is what     *)
(* json.dumps writes for an object of the clip schema, with or without a   *)
(* trailing comma injected and with or without prose around it.            *)
(***************************************************************************)
S_plain == <<"plain">>
S_close == <<"a", SP, RB, SP, "b">>
S_open == <<"a", SP, LB, SP, "b">>
S_balanced == <<LB, "x", RB>>
S_reversed == <<RB, LB>>
S_comma_close == <<"a", CM, RB>>
S_comma_bracket == <<"a", SP, CM, SP, RK, SP, "b">>

ParseTexts ==
    {S_plain, S_close, S_open, S_balanced, S_reversed, S_comma_close, S_comma_bracket, <<>>}

Injections == {"none", "list", "clip", "root"}

\* the clip object of the schema with the given transcript and quotable line
ClipObject(text, quot) ==
    ObjV(<<Member("start_time", NumV(100)), Member("end_time", NumV(130)),
           Member("transcript", StrV(text)), Member("quotable_line", StrV(quot)),
           Member("pattern", StrV(<<"HOT", SP, "TAKE">>)),
           Member("why_good", StrV(<<"bold">>)), Member("speaker", NullV)>>)

ClipsObject(a) ==
    ObjV(<<Member("clips", ArrV([i \in DOMAIN a.texts |-> ClipObject(a.texts[i], a.quot)]))>>)

DumpKey(key) == <<QT, key, QT, CL, SP>>

DumpStr(str) == <<QT>> \o str \o <<QT>>

\* json.dumps of ClipObject, a trailing comma before its "}" if asked for
DumpClip(text, quot, comma) ==
    <<LB>> \o DumpKey("start_time") \o <<"100", CM, SP>>
        \o DumpKey("end_time") \o <<"130", CM, SP>>
        \o DumpKey("transcript") \o DumpStr(text) \o <<CM, SP>>
        \o DumpKey("quotable_line") \o DumpStr(quot) \o <<CM, SP>>
        \o DumpKey("pattern") \o DumpStr(<<"HOT", SP, "TAKE">>) \o <<CM, SP>>
        \o DumpKey("why_good") \o DumpStr(<<"bold">>) \o <<CM, SP>>
        \o DumpKey("speaker") \o <<"null">>
        \o (IF comma THEN <<CM>> ELSE <<>>) \o <<RB>>

\* the content for an input: json.dumps of ClipsObject with the injection done
DumpContent(a) ==
    LET clips == [i \in DOMAIN a.texts |->
                     DumpClip(a.texts[i], a.quot, a.inject = "clip" /\ i = Len(a.texts))]
        body == <<LB>> \o DumpKey("clips") \o <<LK>> \o PyJoin(<<CM, SP>>, clips)
                    \o (IF a.inject = "list" THEN <<CM>> ELSE <<>>) \o <<RK>>
                    \o (IF a.inject = "root" THEN <<CM>> ELSE <<>>) \o <<RB>>
    IN  IF a.wrap THEN <<"Here", SP, "you", SP, "go", CL, NL>> \o body \o <<NL>> ELSE body

\* the transcripts of the clips: plain ones, then one of the texts under test
ParseTextLists ==
    {Append(Rep(S_plain, k - 1), t) : k \in 1..MaxParseClips, t \in ParseTexts}

ParseInputs ==
    [texts : ParseTextLists,
     quot : {<<"short">>, <<>>}, inject : Injections, wrap : BOOLEAN]

InitParse ==
    /\ pc = "start"
    /\ arg \in ParseInputs
    /\ ret = <<>>
    /\ EngineIdle

ParseCall ==
    /\ pc = "start"
    /\ ret' = <<ParseJsonResponse(DumpContent(arg))>>
    /\ pc' = "parsed"
    /\ UNCHANGED arg

NextParse == ParseCall /\ UNCHANGED engine_vars

SpecParse == InitParse /\ [][NextParse]_vars

\* C7: _parse_json_response returns exactly the object for the json.dumps
\* text of an object of the clip schema, and an equal object when a trailing
\* comma was injected before a closing "]" or "}", whatever the strings of
\* the fields hold, "{" and "}" included.
C7_ParseRoundTrip ==
    pc = "parsed" /\ ~arg.wrap => ret[1] = ClipsObject(arg)

(***************************************************************************)
(* Properties of find_clips.                                               *)
(***************************************************************************)
\* C1: for a transcript with at least one segment, whatever the channel and
\* the completions, ClipFinderV3.find_clips ends by returning, never by
\* raising, and the list it returns is no longer than max_clips_per_video of
\* the channel's tier.
C1_V3ReturnsAtMostTierMax ==
    engine = "v3" /\ transcript # <<>> =>
        /\ pc # "raised"
        /\ pc = "done" => Len(result) <= TierSettings(tier).max_clips_per_video

\* the text of the segments that overlap [start_time, end_time], joined in
\* timestamp order
C2_OverlapText(start_time, end_time) ==
    LET IsOver(seg) == seg.start < end_time /\ seg.end > start_time
    IN  PyStrip(PyJoin(<<SP>>, SegTexts(SelectSeq(transcript, IsOver))))

C2_TextOf(clip) ==
    IF engine = "v3" THEN clip.transcript_text.v ELSE clip.transcript_text

\* C2: the transcript_text of every candidate find_clips returns (V3, V4, V5)
\* is the joined text of the transcript segments that overlap the candidate's
\* own [start_time, end_time]: no text of the model, no text of a segment
\* that does not overlap.
C2_TranscriptTextGrounded ==
    pc = "done" =>
        \A i \in DOMAIN result :
            C2_TextOf(result[i]) = C2_OverlapText(result[i].start_time, result[i].end_time)

\* C4: whatever the completions answer, find_clips of V3, V4 and V5 never
\* raises, and a V3 scan in which every response held no match returns the
\* empty list.
C4_FindClipsNeverRaises ==
    /\ pc # "raised"
    /\ pc = "done" /\ engine = "v3" /\ raw_matches = <<>> => result = <<>>

\* a segment that grounds [start_time, end_time]: it overlaps it or, in V4,
\* lies within 5 s of it
C5_Supports(seg, start_time, end_time) ==
    \/ seg.start < end_time /\ seg.end > start_time
    \/ engine = "v4" /\ seg.start >= start_time - 5 /\ seg.end <= end_time + 5

\* C5: no clip returned by find_clips of V4 or V5 has an empty
\* transcript_text or a time range that no transcript segment supports: a
\* clip of the response with no segment on its range (none within 5 s either,
\* in V4) is dropped.
C5_UngroundedDropped ==
    pc = "done" /\ engine \in {"v4", "v5"} =>
        \A i \in DOMAIN result :
            /\ result[i].transcript_text # <<>>
            /\ \E s \in DOMAIN transcript :
                   C5_Supports(transcript[s], result[i].start_time, result[i].end_time)

\* V4 answered a clip past the end of the transcript and a grounded one, and
\* returned the grounded one only
C5_Witness ==
    /\ pc = "done" /\ engine = "v4"
    /\ transcript = TR_dense
    /\ content = [kind |-> "object", items |-> <<K_far, K_ok>>]
    /\ Len(result) = 1
    /\ result[1].start_time = 100 /\ result[1].transcript_text = <<"c">>

\* the matches the scan of the chunk appends in this step
C8_Added == SubSeq(raw_matches', Len(raw_matches) + 1, Len(raw_matches'))

\* the V3 scan keeps an item of 15 s or 90 s and rejects one of 14 s or 91 s
C8_V3Boundary ==
    (/\ pc = "v3_got" /\ content.kind = "object"
     /\ \A i \in DOMAIN content.items : ScanItem(content.items[i]) # "raise")
    => \A i \in DOMAIN content.items :
           LET m == content.items[i]
               d == m.end_time.v - m.start_time.v
           IN  GetPatternId(Get(m.pattern, StrV(EmptyPattern)).v) # NoPattern =>
                   /\ d \in {15, 90} => \E j \in DOMAIN C8_Added : C8_Added[j] = ScanMatch(m)
                   /\ d \in {14, 91} => \A j \in DOMAIN C8_Added : C8_Added[j] # ScanMatch(m)

\* V4 keeps a grounded clip of 25 s or 120 s and rejects one of 24 s or 121 s
C8_V4Boundary ==
    (/\ pc = "v4_got" /\ content.kind = "object"
     /\ Len(content.items) <= V4MaxClips
     /\ \A i \in DOMAIN content.items :
            V4Item(content.items[i], transcript) # "raise")
    => \A i \in DOMAIN content.items :
           LET c == content.items[i]
               start == V4Time(Get(c.start_time, NumV(0))).v
               end == V4Time(Get(c.end_time, NumV(0))).v
               clip == V4Clip(c, transcript)
           IN  start >= 30 /\ C2_OverlapText(start, end) # <<>> =>
                   /\ end - start \in {25, 120} => \E j \in DOMAIN result' : result'[j] = clip
                   /\ end - start \in {24, 121} => \A j \in DOMAIN result' : result'[j] # clip

\* C8: a clip of the model whose duration is exactly the minimum or exactly
\* the maximum is retained, and one whose duration is one second below the
\* minimum or one second above the maximum is rejected: 15 s and 90 s in the
\* V3 scan, 25 s and 120 s in V4.
C8_DurationBoundaries == [][C8_V3Boundary /\ C8_V4Boundary]_vars

\* after one scanned chunk, all_matches holds a match of 15 s and one of 90 s
C8_Witness ==
    /\ engine = "v3" /\ pc = "v3_scan" /\ llm_calls = 1
    /\ \E i \in DOMAIN raw_matches : raw_matches[i].end_time - raw_matches[i].start_time = 15
    /\ \E i \in DOMAIN raw_matches : raw_matches[i].end_time - raw_matches[i].start_time = 90

(***************************************************************************)
(* Scores of the V3 scan and of the candidates built from it.              *)
(***************************************************************************)
C11_Weight(m) == PatternWeight(m.pattern_id)

RECURSIVE C11_SumWeights(_)
C11_SumWeights(ms) ==
    IF ms = <<>> THEN 0 ELSE C11_Weight(Head(ms)) + C11_SumWeights(Tail(ms))

\* m is a member of ms and no member of ms has a greater configured weight
C11_MaximalMember(ms, m) ==
    /\ \E i \in DOMAIN ms : ms[i] = m
    /\ \A j \in DOMAIN ms : C11_Weight(ms[j]) <= C11_Weight(m)

\* C11: every match the V3 scan produced has the configured weight of its
\* pattern as score; every candidate _create_candidates builds from the
\* filtered matches has, before the bonuses, the sum of its members' weights
\* as total_score and takes primary_pattern, quotable_line and why_selected
\* from one member of maximal weight; the bonuses change total_score only.
C11_ScoresAreWeights ==
    /\ \A i \in DOMAIN raw_matches : raw_matches[i].score = C11_Weight(raw_matches[i])
    /\ pc = "done" /\ engine = "v3" /\ filtered_matches # <<>> =>
          LET grouped == CreateCandidates(filtered_matches)
          IN  /\ Len(clip_candidates) = Len(grouped)
              /\ \A g \in DOMAIN grouped :
                    /\ grouped[g].total_score = C11_SumWeights(grouped[g].patterns_matched)
                    /\ \E i \in DOMAIN grouped[g].patterns_matched :
                          LET m == grouped[g].patterns_matched[i]
                          IN  /\ C11_MaximalMember(grouped[g].patterns_matched, m)
                              /\ grouped[g].primary_pattern = m.pattern_id
                              /\ grouped[g].quotable_line = m.quotable_line
                              /\ grouped[g].why_selected = m.why_good
              /\ \A c \in DOMAIN clip_candidates :
                    \E g \in DOMAIN grouped :
                        clip_candidates[c] =
                            [grouped[g] EXCEPT !.total_score = clip_candidates[c].total_score]

\* a candidate of two members whose second member has the greater weight:
\* its primary pattern, quotable line and reason are the second member's
C11_Witness ==
    /\ pc = "done" /\ engine = "v3"
    /\ \E c \in DOMAIN clip_candidates :
          LET ms == clip_candidates[c].patterns_matched
          IN  /\ Len(ms) = 2
              /\ ms[1].score < ms[2].score
              /\ ms[1].quotable_line # ms[2].quotable_line
              /\ ms[1].why_good # ms[2].why_good
              /\ clip_candidates[c].primary_pattern = ms[2].pattern_id
              /\ clip_candidates[c].quotable_line = ms[2].quotable_line
              /\ clip_candidates[c].why_selected = ms[2].why_good

\* C12: for a transcript with no segments, find_clips of V3, V4 and V5 issues
\* no call to the completion and returns the empty list.
C12_EmptyTranscriptNoCall ==
    transcript = <<>> /\ engine \in {"v3", "v4", "v5"} =>
        /\ llm_calls = 0
        /\ pc # "raised"
        /\ pc = "done" => result = <<>>

(***************************************************************************)
(* _create_scan_chunks as a function under test: transcripts of up to      *)
(* MaxChunkSegments segments ordered by start.                             *)
(***************************************************************************)
MaxChunkSegments == 3

ChunkSamples ==
    {Segment(t[1], t[2], <<"x">>) :
        t \in {<<0, 30>>, <<100, 121>>, <<121, 125>>, <<125, 250>>, <<250, 300>>, <<300, 330>>}}

OrderedByStart(segments) ==
    \A i \in 1..(Len(segments) - 1) : segments[i].start <= segments[i + 1].start

InitChunks ==
    /\ pc = "chunks_call"
    /\ arg \in {s \in SeqsUpTo(ChunkSamples, MaxChunkSegments) : OrderedByStart(s)}
    /\ ret = <<>>
    /\ EngineIdle

ChunksCall ==
    /\ pc = "chunks_call"
    /\ ret' = CreateScanChunks(arg)
    /\ pc' = "chunks_done"
    /\ UNCHANGED arg

NextChunks == ChunksCall /\ UNCHANGED engine_vars

SpecChunks == InitChunks /\ [][NextChunks]_vars

\* first[k]..last[k] are the positions in segs of the segments of windows[k]
C13_Covers(segs, windows, first, last) ==
    /\ first[1] = 1
    /\ last[Len(windows)] = Len(segs)
    /\ \A k \in DOMAIN windows :
          /\ first[k] <= last[k]
          /\ windows[k].segments = SubSeq(segs, first[k], last[k])
    /\ \A k \in 1..(Len(windows) - 1) :
          /\ first[k] <= first[k + 1]
          /\ first[k + 1] <= last[k] + 1
          /\ last[k] < last[k + 1]

\* C13: for segments ordered by start, the windows of _create_scan_chunks are
\* in time order, each holds a run of consecutive segments, the first begins
\* with the first segment, each next one begins no later than the segment
\* after the last of the one before it, and the last window ends with the
\* last segment however short it is: every segment is in a window, and none
\* lies uncovered between two consecutive windows.
C13_WindowsCover ==
    pc = "chunks_done" /\ arg # <<>> =>
        /\ ret # <<>>
        /\ \A k \in 1..(Len(ret) - 1) :
              /\ ret[k].start_time <= ret[k + 1].start_time
              /\ ret[k].end_time <= ret[k + 1].end_time
        /\ \E first, last \in [DOMAIN ret -> DOMAIN arg] : C13_Covers(arg, ret, first, last)
        /\ \A i \in DOMAIN arg :
              \E k \in DOMAIN ret : \E j \in DOMAIN ret[k].segments :
                  ret[k].segments[j] = arg[i]

\* two windows that share a segment, the second one shorter than
\* chunk_seconds
C13_Witness ==
    /\ pc = "chunks_done"
    /\ Len(arg) = 3
    /\ Len(ret) = 2
    /\ ret[1].segments = SubSeq(arg, 1, 2)
    /\ ret[2].segments = SubSeq(arg, 2, 3)
    /\ ret[2].end_time - ret[2].start_time < ChunkSeconds

\* C14: the list ClipFinderV3.find_clips returns is in non-increasing order
\* of total_score (the score after the bonuses), whatever the matches and
\* the tier.
C14_ResultRanked ==
    pc = "done" /\ engine = "v3" =>
        \A i, j \in DOMAIN result :
            i < j => result[i].total_score >= result[j].total_score

\* two clips are returned, the later one in the episode first because its
\* score is the greater
C14_Witness ==
    /\ pc = "done" /\ engine = "v3"
    /\ Len(result) = 2
    /\ result[1].total_score > result[2].total_score
    /\ result[1].start_time > result[2].start_time

(***************************************************************************)
(* The two attempts of ClipFinderV4.find_clips.                            *)
(***************************************************************************)
\* C15: when a completion call of V4 fails (llm.chat raises), find_clips
\* calls again with the simple prompt if that was the first of its 2
\* attempts, and returns the empty list only when it was the second.
C15_RetryOnFailure ==
    [][engine = "v4" /\ pc = "v4_got" /\ content.kind = "RAISES" =>
          IF attempt = 0
          THEN pc' = "v4_call" /\ prompt' = "simple" /\ attempt' = 1
          ELSE pc' = "done" /\ result' = <<>>]_vars

\* C16: one find_clips of V4 issues at most 2 completion calls, the first
\* with the primary prompt; when the first call is answered, the second is
\* issued, with the simple prompt, exactly when nothing came out of the
\* first answer (it did not parse or no clip of it was accepted); after the
\* second call find_clips returns, the empty list if that gave no clip either.
C16_SecondCallIffNoClips ==
    [][engine = "v4" =>
          /\ llm_calls' <= 2
          /\ pc' = "v4_call" /\ llm_calls' = 0 => prompt' = "primary"
          /\ pc' = "v4_call" /\ llm_calls' = 1 => prompt' = "simple"
          /\ pc = "v4_got" /\ attempt = 0 /\ content.kind # "RAISES" =>
                (pc' = "v4_call" <=> result' = <<>>)
          /\ pc = "v4_got" /\ attempt = 1 => pc' = "done"
          /\ pc = "v4_got" /\ pc' = "done" /\ V4Attempt(content, transcript, attempt) # "return"
                => result' = <<>>]_vars

\* the latest end_time among the first n matches of ms
C17_LatestEnd(ms, n) == MaxOf({ms[i].end_time : i \in 1..n})

\* C17: a match is added to the current group while it starts less than 30 s
\* after the latest end_time among the matches already in the group, so every
\* member but the first starts within 30 s of the latest end before it, and
\* any two distinct candidates are at least 30 s apart: one starts 30 s or
\* more after the other ends.
C17_CandidatesApart ==
    pc = "group_done" =>
        /\ \A c \in DOMAIN ret :
              \A i \in 2..Len(ret[c].patterns_matched) :
                  ret[c].patterns_matched[i].start_time
                      - C17_LatestEnd(ret[c].patterns_matched, i - 1) < GroupGap
        /\ \A a, b \in DOMAIN ret :
              a < b => ret[b].start_time - ret[a].end_time >= GroupGap

(***************************************************************************)
(* _score_candidates as a function under test: lists of up to              *)
(* MaxScoreList candidates as _group_to_candidate builds them.             *)
(***************************************************************************)
MaxScoreList == 2

\* one member, two members of one pattern, two members of two patterns
ScoreMembers(e, text) ==
    LET M(pid, s) == PatternMatch(pid, s, e, StrV(text), StrV(Rep("q", 20)), StrV(<<>>),
                                  PatternWeight(pid))
    IN  {<<M("bold_prediction", 100)>>,
         <<M("bold_prediction", 100), M("bold_prediction", 105)>>,
         <<M("bold_prediction", 100), M("specific_numbers", 105)>>}

ScoreSamples ==
    {GroupToCandidate(ms) :
        ms \in UNION {ScoreMembers(100 + d, text) :
                         d \in {ShorterClipSeconds, ShorterClipSeconds + 1,
                                ShortClipSeconds, ShortClipSeconds + 1},
                         text \in {T_clean, T_lead_dots}}}

InitScore ==
    /\ pc = "score_call"
    /\ arg \in SeqsUpTo(ScoreSamples, MaxScoreList)
    /\ ret = <<>>
    /\ EngineIdle

ScoreCall ==
    /\ pc = "score_call"
    /\ ret' = ScoreCandidates(arg)
    /\ pc' = "score_done"
    /\ UNCHANGED arg

NextScore == ScoreCall /\ UNCHANGED engine_vars

SpecScore == InitScore /\ [][NextScore]_vars

\* the duration bonus in tenths: 1.2 up to 30 s, 1.1 above 30 s and up to
\* 45 s, none above
C18_DurationBonus(duration) ==
    IF duration <= 30 THEN 12 ELSE IF duration <= 45 THEN 11 ELSE 10

\* candidate c with the multi-pattern bonus multi and the duration bonus
\* band (in tenths) and the number bonus digit (in hundredths) applied
C18_Bonused(c, multi, band, digit) ==
    LET s1 == (c.total_score * multi) \div 10
        s2 == (s1 * band) \div 10
    IN  [c EXCEPT !.total_score = (s2 * digit) \div 100]

\* C18: every candidate comes out of _score_candidates with exactly one
\* duration bonus applied, that of the tighter band: x1.2 for a duration of
\* at most 30 s, x1.1 above 30 s and up to 45 s, none above 45 s (whether or
\* not the multi-pattern and the number bonus apply as well).
C18_OneDurationBonus ==
    pc = "score_done" =>
        /\ Len(ret) = Len(arg)
        /\ \A i \in DOMAIN arg :
              \E j \in DOMAIN ret : \E multi \in {10, 12}, digit \in {100, 105} :
                  ret[j] = C18_Bonused(arg[i], multi,
                                       C18_DurationBonus(arg[i].end_time - arg[i].start_time),
                                       digit)

\* the multi-pattern bonus in tenths: 1.2 when the members cover at least 2
\* distinct pattern ids
C19_MultiPatternBonus(c) ==
    IF Cardinality({c.patterns_matched[k].pattern_id : k \in DOMAIN c.patterns_matched}) >= 2
    THEN 12 ELSE 10

\* C19: a candidate comes out of _score_candidates with the x1.2
\* multi-pattern bonus applied iff its members cover at least 2 distinct
\* pattern ids (whichever duration and number bonus apply as well).
C19_BonusIffDistinctPatterns ==
    pc = "score_done" =>
        /\ Len(ret) = Len(arg)
        /\ \A i \in DOMAIN arg :
              \E j \in DOMAIN ret : \E band \in {10, 11, 12}, digit \in {100, 105} :
                  ret[j] = C18_Bonused(arg[i], C19_MultiPatternBonus(arg[i]), band, digit)

\* candidate c keeps the gap to each of the first n selected candidates and
\* has a primary_pattern none of them has
C20_DistinctAndFar(c, selected, n) ==
    \A i \in 1..n :
        /\ c.start_time - selected[i].start_time >= 300
              \/ selected[i].start_time - c.start_time >= 300
        /\ c.primary_pattern # selected[i].primary_pattern

\* C20: a candidate whose primary_pattern one of the candidates selected
\* before it has is selected only when no candidate that is not yet selected
\* keeps the gap to those and differs from all of them in primary_pattern:
\* a candidate of a new pattern is taken in preference to it.
C20_DistinctPatternPreferred ==
    pc = "diversity_done" =>
        \A j \in DOMAIN ret :
            (\E i \in 1..(j - 1) : ret[i].primary_pattern = ret[j].primary_pattern) =>
                ~\E k \in DOMAIN arg.candidates :
                    /\ \A i \in 1..(j - 1) : arg.candidates[k] # ret[i]
                    /\ C20_DistinctAndFar(arg.candidates[k], ret, j - 1)

(***************************************************************************)
(* Steps 5 and 6 of ClipFinderV3.find_clips as a function under test: the  *)
(* tier's threshold and the diversity selection, on scored lists of up to  *)
(* MaxThresholdList candidates.                                            *)
(***************************************************************************)
MaxThresholdList == 2

ThresholdSamples ==
    {V3ClipCandidate(s, s + 30, StrV(T_clean), <<>>, sc, "hot_take", StrV(Rep("q", 20)),
                     StrV(<<>>)) :
        s \in {0, 300}, sc \in {1999999, 2000000, 2000001}}

\* as _score_candidates leaves the list
RankedByScore(cands) ==
    \A i \in 1..(Len(cands) - 1) : cands[i].total_score >= cands[i + 1].total_score

InitSelect ==
    /\ pc = "select_call"
    /\ arg \in [scored : {s \in SeqsUpTo(ThresholdSamples, MaxThresholdList) : RankedByScore(s)},
                tier : {"A", "B", "C"}]
    /\ ret = <<>>
    /\ EngineIdle

SelectCall ==
    /\ pc = "select_call"
    /\ LET settings == TierSettings(arg.tier)
           scored == ApplyThreshold(arg.scored, settings.min_score_threshold)
       IN  ret' = [scored |-> scored,
                   final |-> ApplyDiversityConstraints(scored, settings.max_clips_per_video)]
    /\ pc' = "select_done"
    /\ UNCHANGED arg

NextSelect == SelectCall /\ UNCHANGED engine_vars

SpecSelect == InitSelect /\ [][NextSelect]_vars

\* the default threshold of a tier, in millionths
C21_Threshold(t) == IF t = "C" THEN 2000000 ELSE 0

\* C21: the list handed to the diversity selection holds, in their order,
\* the candidates whose total_score is the tier's min_score_threshold or
\* more (one scoring exactly the threshold is kept, one below it is not);
\* with a threshold of zero it is the whole list; no candidate below the
\* threshold is in the final selection.
C21_BelowThresholdRemoved ==
    pc = "select_done" =>
        LET min_score == C21_Threshold(arg.tier)
            Reaches(c) == c.total_score >= min_score
        IN  /\ ret.scored = SelectSeq(arg.scored, Reaches)
            /\ min_score = 0 => ret.scored = arg.scored
            /\ \A i \in DOMAIN ret.final :
                  /\ ret.final[i].total_score >= min_score
                  /\ \E j \in DOMAIN ret.scored : ret.scored[j] = ret.final[i]

\* in tier C a candidate scoring exactly 2.0 is kept and selected and one
\* just below is removed
C21_Witness ==
    /\ pc = "select_done"
    /\ arg.tier = "C"
    /\ Len(arg.scored) = 2
    /\ arg.scored[1].total_score = 2000000
    /\ arg.scored[2].total_score = 1999999
    /\ ret.scored = <<arg.scored[1]>>
    /\ ret.final = <<arg.scored[1]>>

(***************************************************************************)
(* get_channel_tier as a function under test: channel names of up to       *)
(* MaxNameLen tokens, on engines whose lookup table lists the sample       *)
(* channels in either order.                                               *)
(***************************************************************************)
MaxNameLen == 3

NameTokens == {"Bankless", "Bell", SP, "Curve", "other"}

Reversed(s) == [i \in DOMAIN s |-> s[Len(s) + 1 - i]]

InitTier ==
    /\ pc = "tier_call"
    /\ arg \in [channel_tiers : {channel_tiers, Reversed(channel_tiers)},
                channel_name : SeqsUpTo(NameTokens, MaxNameLen)]
    /\ ret = <<>>
    /\ EngineIdle

TierCall ==
    /\ pc = "tier_call"
    /\ ret' = GetChannelTierIn(arg.channel_tiers, arg.channel_name)
    /\ pc' = "tier_done"
    /\ UNCHANGED arg

NextTier == TierCall /\ UNCHANGED engine_vars

SpecTier == InitTier /\ [][NextTier]_vars

\* part is a non-empty run of tokens of whole
C22_Within(part, whole) ==
    /\ part # <<>>
    /\ \E k \in 1..(Len(whole) - Len(part) + 1) : SubSeq(whole, k, k + Len(part) - 1) = part

\* the name matches the key of a configured channel, exactly or as a substring
C22_Configured(name, tiers) ==
    \E i \in DOMAIN tiers :
        \/ tiers[i].key = name
        \/ C22_Within(tiers[i].key, name)
        \/ C22_Within(name, tiers[i].key)

\* C22: get_channel_tier returns the tier of the channel whose key is the
\* lowercased name, whatever other keys the name contains; it returns "B" for
\* a name that matches no configured channel, the empty name among them; and
\* it returns the same tier when the channels are listed in the other order.
C22_TierOfChannel ==
    pc = "tier_done" =>
        LET name == PyLower(arg.channel_name)
        IN  /\ \A i \in DOMAIN arg.channel_tiers :
                  arg.channel_tiers[i].key = name => ret = arg.channel_tiers[i].tier
            /\ ~C22_Configured(name, arg.channel_tiers) => ret = "B"
            /\ ret = GetChannelTierIn(Reversed(arg.channel_tiers), arg.channel_name)

(***************************************************************************)
(* The fan-outs of ClipFinderV5.find_clips.                                *)
(***************************************************************************)
\* the quotable_line C23 gives a clip whose polishing task returned r
C23_Quote(clip, r) ==
    IF r.kind = "text" /\ r.text # <<>> /\ Len(r.text) <= 100
    THEN StrV(r.text) ELSE clip.quotable_line

\* C23: pass 3 of V5 never raises; it returns the clips it was given, in
\* their order, each with the cleaned result of its polishing call as
\* quotable_line when the call succeeded with a non-empty result of at most
\* 100 characters and with its own quotable_line otherwise, and with every
\* other field unchanged.
C23_PolishKeepsOrReplaces ==
    [][engine = "v5" /\ pc = "v5_pass3" =>
          /\ pc' \in {"v5_pass3", "done"}
          /\ pc' = "done" =>
                /\ Len(result') = Len(clip_candidates)
                /\ \A i \in DOMAIN clip_candidates :
                      result'[i] = [clip_candidates[i] EXCEPT
                                       !.quotable_line =
                                           C23_Quote(clip_candidates[i], content.items[i])]]_vars

\* the score C24 gives a candidate whose scoring task returned r: 5.0 when
\* the task failed or its result has no score, else the score of the result
C24_Score(r) == IF r.kind = "RAISES" \/ r.score.t = "missing" THEN NumV(5) ELSE r.score

\* the quote of a clip after the merge fits what its own polishing task
\* returned: unchanged when the task failed, the result when that is
\* non-empty and short
C24_QuoteFits(clip, r, merged) ==
    /\ merged \in {clip.quotable_line, StrV(r.text)}
    /\ r.kind = "RAISES" => merged = clip.quotable_line
    /\ r.kind = "text" /\ r.text # <<>> /\ Len(r.text) < 100 => merged = StrV(r.text)

\* C24: in both fan-outs of V5 nothing is merged before every task has
\* returned; whichever tasks fail and in whatever order the tasks return,
\* the merge goes through, a candidate whose task failed gets the neutral
\* value (score 5.0, or its quote unchanged) and every other candidate gets
\* the value its own task returned.
C24_TasksIsolated ==
    [][engine = "v5" =>
          /\ pc = "v5_pass2" /\ pc' = "v5_pass2" => clip_candidates' = clip_candidates
          /\ pc = "v5_pass2" /\ pc' # "v5_pass2" =>
                /\ \A i \in DOMAIN content.items : content.items[i].kind # "pending"
                /\ pc' = "v5_pass3"
                /\ Len(clip_candidates') = Len(clip_candidates)
                /\ \A i \in DOMAIN clip_candidates :
                      \E j \in DOMAIN clip_candidates' :
                          clip_candidates'[j] =
                              [clip_candidates[i] EXCEPT !.score = C24_Score(content.items[i])]
          /\ pc = "v5_pass3" /\ pc' = "v5_pass3" =>
                result' = result /\ clip_candidates' = clip_candidates
          /\ pc = "v5_pass3" /\ pc' # "v5_pass3" =>
                /\ \A i \in DOMAIN content.items : content.items[i].kind # "pending"
                /\ pc' = "done"
                /\ Len(result') = Len(clip_candidates)
                /\ \A i \in DOMAIN clip_candidates :
                      /\ [result'[i] EXCEPT !.quotable_line = clip_candidates[i].quotable_line]
                             = clip_candidates[i]
                      /\ C24_QuoteFits(clip_candidates[i], content.items[i],
                                       result'[i].quotable_line)]_vars

(***************************************************************************)
(* Two find_clips invocations on the module singleton of ClipFinderV4,     *)
(* interleaved at their completion calls.  arg[i] is the transcript of     *)
(* invocation i, ret[i] its position, attempt, last answer and result;     *)
(* current_transcript is the attribute of the one engine instance.         *)
(***************************************************************************)
Invocations == {1, 2}

ConcurrentResponses ==
    {[kind |-> k, items |-> <<>>] : k \in {"RAISES", "NOT_JSON"}}
    \cup {[kind |-> "object", items |-> cs] : cs \in SeqsUpTo({K_ok, K_str, K_far}, 1)}

InitConcurrent ==
    /\ pc = "tasks"
    /\ arg \in {a \in [Invocations -> Transcripts] : a[1] # a[2]}
    /\ ret = [i \in Invocations |->
                 [pc |-> "idle", attempt |-> 0, content |-> NoResponse, result |-> <<>>]]
    /\ EngineIdle

\* invocation i runs from its start to its first await llm.chat
TaskFindClips(i) ==
    /\ ret[i].pc = "idle"
    /\ current_transcript' = [set |-> TRUE, segments |-> arg[i]]
    /\ ret' = [ret EXCEPT ![i].pc = "call"]
    /\ UNCHANGED <<pc, arg, transcript, tier, chunks_left, raw_matches, filtered_matches,
                   clip_candidates, attempt, prompt, llm_calls, content, result, engine>>

\* the completion call of invocation i returns and the invocation runs on to
\* its next await or to its return
TaskResume(i) ==
    /\ ret[i].pc = "call"
    /\ \E resp \in ConcurrentResponses :
           LET outcome == V4Attempt(resp, current_transcript.segments, ret[i].attempt)
           IN  ret' = [ret EXCEPT
                          ![i].content = resp,
                          ![i].pc = IF outcome = "retry" THEN "call" ELSE "done",
                          ![i].attempt = IF outcome = "retry" THEN @ + 1 ELSE @,
                          ![i].result =
                              IF outcome = "return"
                              THEN Take(V4Clips(resp.items, current_transcript.segments),
                                        V4MaxClips)
                              ELSE <<>>]
    /\ llm_calls' = llm_calls + 1
    /\ UNCHANGED <<pc, arg, transcript, current_transcript, tier, chunks_left, raw_matches,
                   filtered_matches, clip_candidates, attempt, prompt, content, result,
                   engine>>

NextConcurrent == \E i \in Invocations : TaskFindClips(i) \/ TaskResume(i)

SpecConcurrent == InitConcurrent /\ [][NextConcurrent]_vars

\* C25: however two find_clips invocations on one engine interleave at their
\* completion calls, every clip an invocation returns carries the text of
\* its own transcript on the clip's time range.
C25_GroundedInOwnTranscript ==
    pc = "tasks" =>
        \A i \in Invocations :
            ret[i].pc = "done" =>
                \A k \in DOMAIN ret[i].result :
                    LET clip == ret[i].result[k]
                        own == V4GetRealTranscript(arg[i], clip.start_time, clip.end_time)
                    IN  own # <<>> /\ clip.transcript_text = own

\* C26: every candidate the V3 pipeline builds from the matches the scan
\* accepted (grouped, then scored) ends after it starts and has a score that
\* is not negative; so does every clip find_clips returns.
C26_CandidatesWellFormed ==
    engine = "v3" =>
        /\ \A i \in DOMAIN clip_candidates :
               /\ clip_candidates[i].end_time > clip_candidates[i].start_time
               /\ clip_candidates[i].total_score >= 0
               /\ clip_candidates[i].patterns_matched # <<>>
        /\ \A i \in DOMAIN result :
               /\ result[i].end_time > result[i].start_time
               /\ result[i].total_score >= 0

\* a candidate merged from two matches next to a candidate of one match
C26_Witness ==
    /\ engine = "v3"
    /\ pc = "done"
    /\ \E i, j \in DOMAIN clip_candidates :
           /\ Len(clip_candidates[i].patterns_matched) > 1
           /\ Len(clip_candidates[j].patterns_matched) = 1

\* C27: every candidate V3 find_clips returns lasts at least MinDuration and
\* at most MaxDuration seconds, also when it was merged from several matches.
C27_ReturnedDurationInBand ==
    engine = "v3" =>
        \A i \in DOMAIN result :
            ~DurationOutOfBand(result[i].end_time - result[i].start_time)

(***************************************************************************)
(* The clips ClipFinderV4.find_clips and ClipFinderV5.find_clips return    *)
(* for one answer of the model: arg holds the engine, the transcript, the  *)
(* items of the answer and, for V5, what the scoring and polishing tasks   *)
(* return.                                                                 *)
(***************************************************************************)
MaxClipItems == 2        \* most items in an answer made of any item
MaxManyClips == 6        \* most items in an answer made of groundable items only

\* no "end_time" key; "end_time": 0; an end before the start
K_noend == Item(StrV(P_bold), NumV(100), MissingV, StrV(T_clean), Quote20)
K_zero == Item(StrV(P_bold), NumV(100), NumV(0), StrV(T_clean), Quote20)
K_back == Item(StrV(P_bold), NumV(100), NumV(40), StrV(T_clean), Quote20)

ClipItems == V4Items \cup {K_noend, K_zero, K_back}

ClipItemLists ==
    SeqsUpTo(ClipItems, MaxClipItems)
    \cup UNION {[1..k -> {K_ok, K_noend}] : k \in (MaxClipItems + 1)..MaxManyClips}

\* the clips V4 returns for an answer that is an object with these items
V4Returned(items, segments) ==
    IF \E i \in DOMAIN items : V4Item(items[i], segments) = "raise" THEN <<>>
    ELSE Take(V4Clips(items, segments), V4MaxClips)

\* the clips V5 returns for an answer that is an object with these items,
\* every scoring task returning score and every polishing task polish
V5Returned(items, segments, score, polish) ==
    LET found == V5FindCandidatesOf([kind |-> "object", items |-> items], segments)
        scored == V5Scored(found, [i \in DOMAIN found |-> score])
        top_clips == Take(SortByV5Score(scored), V5MaxClips)
    IN  [i \in DOMAIN top_clips |-> Polished(top_clips[i], polish)]

InitClips ==
    /\ pc = "clips_call"
    /\ arg \in [engine : {"v4", "v5"}, segments : {TR_gap, TR_dense}, items : ClipItemLists,
                score : {r \in ScoreResults : IsNum(Get(r.score, NumV(DefaultScore)))
                                              /\ r.kind # "NOT_OBJECT"},
                polish : {r \in PolishResults : r.kind = "RAISES" \/ r.text = <<"punchy">>}]
    /\ ret = <<>>
    /\ EngineIdle

ClipsCall ==
    /\ pc = "clips_call"
    /\ ret' = IF arg.engine = "v4" THEN V4Returned(arg.items, arg.segments)
              ELSE V5Returned(arg.items, arg.segments, arg.score, arg.polish)
    /\ pc' = "clips_done"
    /\ UNCHANGED arg

NextClips == ClipsCall /\ UNCHANGED engine_vars

SpecClips == InitClips /\ [][NextClips]_vars

\* C28: every clip V4 or V5 find_clips returns starts at second 30 or later
\* and lasts between 25 and 120 seconds, whatever times the answer gave; V5
\* gives a clip whose end is missing, zero or less than 25 s after its start
\* the end start + 45 and one whose end is more than 120 s after it the end
\* start + 60; V4 returns at most 3 clips and V5 at most 5.
C28_ReturnedClipsInBand ==
    pc = "clips_done" =>
        /\ \A i \in DOMAIN ret :
               /\ ret[i].start_time >= 30
               /\ ret[i].end_time - ret[i].start_time >= 25
               /\ ret[i].end_time - ret[i].start_time <= 120
        /\ Len(ret) <= (IF arg.engine = "v4" THEN 3 ELSE 5)
        /\ arg.engine = "v5" /\ Len(arg.items) = 1 /\ Len(ret) = 1 =>
               LET given == arg.items[1].end_time
                   start == ret[1].start_time
                   end == IF IsNum(given) THEN given.v
                          ELSE IF IsStr(given) THEN DecimalValue(RemoveS(given.v))
                          ELSE 0
               IN  ret[1].end_time =
                       IF ~IsNum(given) /\ ~IsStr(given) THEN start + 45
                       ELSE IF end = 0 \/ end - start < 25 THEN start + 45
                       ELSE IF end - start > 120 THEN start + 60
                       ELSE end

\* V5 has returned five clips of an answer with more groundable items, with
\* an end it had to supply
C28_Witness ==
    /\ pc = "clips_done"
    /\ arg.engine = "v5"
    /\ Len(arg.items) > 5
    /\ Len(ret) = 5
    /\ \E i \in DOMAIN ret : ret[i].end_time = ret[i].start_time + 45

(***************************************************************************)
(* Steps 2 to 6 of ClipFinderV3.find_clips for a Tier C channel, on        *)
(* matches of every pattern of the catalog: arg holds the pattern ids of   *)
(* the matches, their duration, their text and the distance between the    *)
(* starts of two matches that follow each other.                           *)
(***************************************************************************)
MaxCatalogMatches == 2

CatalogIds == {CLIP_PATTERNS[i].id : i \in DOMAIN CLIP_PATTERNS}

\* the matches the scan appends for items of these patterns
CatalogMatches(a) ==
    [k \in DOMAIN a.ids |->
        PatternMatch(a.ids[k], 100 + (k - 1) * a.step, 100 + (k - 1) * a.step + a.duration,
                     StrV(a.text), StrV(Rep("q", MinQuotableLen)), StrV(<<>>),
                     PatternWeight(a.ids[k]))]

InitTierC ==
    /\ pc = "tierc_call"
    /\ arg \in [ids : UNION {[1..n -> CatalogIds] : n \in 1..MaxCatalogMatches},
                duration : {MinDuration, ShorterClipSeconds, ShortClipSeconds, MaxDuration},
                text : {T_clean, T_lead_dots},
                step : {5, MaxDuration + GroupGap}]
    /\ ret = <<>>
    /\ EngineIdle

TierCCall ==
    /\ pc = "tierc_call"
    /\ LET settings == TierSettings("C")
           filtered == ApplyHardFilters(CatalogMatches(arg))
           scored == ScoreCandidates(CreateCandidates(filtered))
           kept == ApplyThreshold(scored, settings.min_score_threshold)
       IN  ret' = [scored |-> scored, kept |-> kept,
                   final |-> ApplyDiversityConstraints(kept, settings.max_clips_per_video)]
    /\ pc' = "tierc_done"
    /\ UNCHANGED arg

NextTierC == TierCCall /\ UNCHANGED engine_vars

SpecTierC == InitTierC /\ [][NextTierC]_vars

\* C29: with the catalog's weights and the default Tier C policy, a scored
\* candidate passes the threshold exactly when it merges two or more
\* matches: no candidate of one match reaches 2.0, with every bonus, and
\* every candidate of two or more matches does.
C29_PassesIffMerged ==
    pc = "tierc_done" =>
        /\ \A i \in DOMAIN ret.scored :
               (\E k \in DOMAIN ret.kept : ret.kept[k] = ret.scored[i])
                   <=> Len(ret.scored[i].patterns_matched) >= 2
        /\ \A k \in DOMAIN ret.kept : Len(ret.kept[k].patterns_matched) >= 2
        /\ \A i \in DOMAIN ret.scored :
               ret.scored[i].total_score >= 2000000
                   <=> Len(ret.scored[i].patterns_matched) >= 2

\* a candidate of one match of the highest weight with every bonus it can
\* get, 1.4 * 1.1 * 1.05, is dropped
C29_Witness ==
    /\ pc = "tierc_done"
    /\ Len(ret.scored) = 1
    /\ Len(ret.scored[1].patterns_matched) = 1
    /\ ret.scored[1].total_score = 1617000
    /\ ret.kept = <<>>

(***************************************************************************)
(* OrchestratorV4.process_video, called MaxCalls times for one video_id.   *)
(* The calls are tasks of one event loop (the scheduled batch delivery and *)
(* the bot's handlers), so they interleave at their awaits; calls that     *)
(* follow each other are the interleavings in which one call has returned  *)
(* before the next starts.  ret.videos is the row of the video in the      *)
(* database's videos table, ret.calls the position of each call and what   *)
(* it has done, ret.passed the calls in the order in which they passed the *)
(* exists check.  A statement on the database succeeds or raises.          *)
(***************************************************************************)
MaxCalls == 2

Calls == 1..MaxCalls

NoRow == [present |-> FALSE, transcribed |-> FALSE, clips_identified |-> FALSE]

NewCall == [pc |-> "idle", ran_transcriber |-> FALSE, ran_clip_finder |-> FALSE, returned |-> "nothing"]

InitOrchestrator ==
    /\ pc = "calls"
    /\ arg = "video"
    /\ ret = [videos |-> NoRow, calls |-> [i \in Calls |-> NewCall], passed |-> <<>>]
    /\ EngineIdle

\* return [] of process_video
ReturnsEmpty(call) == [call EXCEPT !.pc = "done", !.returned = "empty"]

\* call i starts and runs to its first await
ProcessVideo(i) ==
    /\ ret.calls[i].pc = "idle"
    /\ ret' = [ret EXCEPT !.calls[i].pc = "video_exists"]

\* Database.video_exists answers, or raises out of process_video
VideoExists(i) ==
    /\ ret.calls[i].pc = "video_exists"
    /\ \E ok \in BOOLEAN :
           ret' = IF ~ok THEN [ret EXCEPT !.calls[i].pc = "raised"]
                  ELSE IF ret.videos.present
                       THEN [ret EXCEPT !.calls[i] = ReturnsEmpty(@)]
                  ELSE [ret EXCEPT !.calls[i].pc = "add_video",
                                   !.passed = Append(@, i)]

\* Database.add_video: INSERT OR REPLACE writes a fresh row
AddVideo(i) ==
    /\ ret.calls[i].pc = "add_video"
    /\ \E ok \in BOOLEAN :
           ret' = IF ok
                  THEN [ret EXCEPT !.videos = [NoRow EXCEPT !.present = TRUE],
                                   !.calls[i].pc = "transcribe"]
                  ELSE [ret EXCEPT !.calls[i] = ReturnsEmpty(@)]

\* _get_transcript_with_retry returns a transcript or None
GetTranscriptWithRetry(i) ==
    /\ ret.calls[i].pc = "transcribe"
    /\ \E transcribed \in BOOLEAN :
           ret' = IF transcribed
                  THEN [ret EXCEPT !.calls[i].pc = "mark_video_transcribed",
                                   !.calls[i].ran_transcriber = TRUE]
                  ELSE [ret EXCEPT !.calls[i] = ReturnsEmpty([@ EXCEPT !.ran_transcriber = TRUE])]

\* Database.mark_video_transcribed: an UPDATE of the row, if there is one
MarkVideoTranscribed(i) ==
    /\ ret.calls[i].pc = "mark_video_transcribed"
    /\ \E ok \in BOOLEAN :
           ret' = IF ok
                  THEN [ret EXCEPT !.videos.transcribed = ret.videos.present,
                                   !.calls[i].pc = "find_clips"]
                  ELSE [ret EXCEPT !.calls[i] = ReturnsEmpty(@)]

\* _find_clips_with_retry returns clips or []
FindClipsWithRetry(i) ==
    /\ ret.calls[i].pc = "find_clips"
    /\ \E clips \in BOOLEAN :
           ret' = IF clips
                  THEN [ret EXCEPT !.calls[i].pc = "mark_video_clips_identified",
                                   !.calls[i].ran_clip_finder = TRUE]
                  ELSE [ret EXCEPT !.calls[i] = ReturnsEmpty([@ EXCEPT !.ran_clip_finder = TRUE])]

\* Database.mark_video_clips_identified
MarkVideoClipsIdentified(i) ==
    /\ ret.calls[i].pc = "mark_video_clips_identified"
    /\ \E ok \in BOOLEAN :
           ret' = IF ok
                  THEN [ret EXCEPT !.videos.clips_identified = ret.videos.present,
                                   !.calls[i].pc = "process_clips"]
                  ELSE [ret EXCEPT !.calls[i] = ReturnsEmpty(@)]

\* _process_clips returns the processed clips, or raises
ProcessClips(i) ==
    /\ ret.calls[i].pc = "process_clips"
    /\ \E ok \in BOOLEAN :
           ret' = IF ok
                  THEN [ret EXCEPT !.calls[i].pc = "done", !.calls[i].returned = "processed"]
                  ELSE [ret EXCEPT !.calls[i] = ReturnsEmpty(@)]

NextOrchestrator ==
    /\ \E i \in Calls :
           \/ ProcessVideo(i) \/ VideoExists(i) \/ AddVideo(i)
           \/ GetTranscriptWithRetry(i) \/ MarkVideoTranscribed(i)
           \/ FindClipsWithRetry(i) \/ MarkVideoClipsIdentified(i) \/ ProcessClips(i)
    /\ UNCHANGED <<pc, arg>>
    /\ UNCHANGED engine_vars

SpecOrchestrator == InitOrchestrator /\ [][NextOrchestrator]_vars

\* C30: of the calls of process_video for one video only the first that
\* passed the exists check transcribes or looks for clips; every other call
\* that returns returns an empty list, whatever became of that first call.
C30_OnlyFirstCallRuns ==
    pc = "calls" =>
        \A i \in Calls :
            ret.passed # <<>> /\ i # ret.passed[1] =>
                /\ ~ret.calls[i].ran_transcriber
                /\ ~ret.calls[i].ran_clip_finder
                /\ ret.calls[i].pc \notin {"transcribe", "find_clips"}
                /\ ret.calls[i].pc = "done" => ret.calls[i].returned = "empty"

====
